---- MODULE Spec2Model ----
(***************************************************************************)
(* State-machine model of the wheelhouse backend: the accounts and         *)
(* positions tables and the request handlers of                            *)
(* backend/app/routers/accounts.py and backend/app/routers/positions.py.   *)
(*                                                                         *)
(* Conventions                                                             *)
(*   - a nullable column / Optional value is None (<<>>) or Some(v)        *)
(*     (<<v>>); a NOT NULL column holds the bare value;                    *)
(*   - a Decimal is its sign, coefficient digits and exponent, and its     *)
(*     arithmetic rounds to the context precision; dates are day numbers;  *)
(*   - a ticker is a sequence of characters, so that str.upper() is a real *)
(*     conversion;                                                         *)
(*   - a str-Enum member is <<EnumName, value>>, so that .value is a real  *)
(*     projection;                                                         *)
(*   - ids generated by the database (gen_random_uuid()) are the row       *)
(*     numbers 1, 2, ...; roll group ids (uuid4()) are drawn from the      *)
(*     counter next_uuid.                                                  *)
(***************************************************************************)
EXTENDS Integers, Sequences, FiniteSets, TLC

\* ------------------------------------------------------------------ bounds
MaxAccounts == 2       \* rows of the accounts table
MaxPositions == 2      \* rows of the positions table under Spec
MaxChain == 3          \* rows of the positions table under SpecChain
MaxTxPositions == 3    \* rows of the positions table under SpecTx
MaxSessions == 2       \* roll requests in flight at once under SpecTx
MaxRollAttempts == 2   \* roll requests that reach uuid4() under SpecTx
MaxTermsPositions == 2 \* rows of the positions table under SpecTerms
MaxMetricsPositions == 1 \* rows of the positions table under SpecMetrics
MaxReadsPositions == 2 \* rows of the positions table under SpecReads
MaxDashPositions == 3  \* rows of the positions table under SpecDash
MaxQueryPositions == 2 \* rows of the positions table under SpecQueries

VARIABLES
    accounts,   \* the accounts table: a sequence of rows
    positions,  \* the positions table (committed rows): a sequence of rows
    next_uuid,  \* number of roll group ids generated so far
    last,       \* the last request answered: [op, result]
    sessions,   \* roll requests in flight: staged, not yet committed
    price_cache, \* _price_cache: ticker -> (TickerPrice, fetch_timestamp)
    clock,      \* the wall clock, in seconds
    price_calls \* the get_prices requests begun, each with its locals

vars == <<accounts, positions, next_uuid, last, sessions, price_cache, clock, price_calls>>

None == <<>>
Some(v) == <<v>>

\* The acting user and one other user.
Users == {"u1", "u2"}
\* ids a request can name: every id of the table, and one id of no row
Refs(table) == 1..(Len(table) + 1)

\* ------------------------------------------------------------ conversions
UpperChar(c) ==
    CASE c = "a" -> "A"
      [] c = "m" -> "M"
      [] OTHER -> c

\* str.upper()
Upper(s) == [i \in DOMAIN s |-> UpperChar(s[i])]

\* Enum.value of a str-Enum member
EnumValue(e) == e[2]

COVERED_CALL == <<"PositionType", "COVERED_CALL">>
CASH_SECURED_PUT == <<"PositionType", "CASH_SECURED_PUT">>
ROBINHOOD == <<"Broker", "robinhood">>
MERRILL == <<"Broker", "merrill">>

\* ---------------------------------------------------------------- Decimal
\* A natural number of any size is its sequence of decimal digits, most
\* significant first, without leading zeros (<<0>> for zero).
NatStrip(a) ==
    LET nz == {k \in 1..Len(a) : a[k] # 0}
    IN IF nz = {} THEN <<0>>
       ELSE SubSeq(a, CHOOSE k \in nz : \A j \in nz : k <= j, Len(a))

RECURSIVE NatOfInt(_)
NatOfInt(n) == IF n < 10 THEN <<n>> ELSE Append(NatOfInt(n \div 10), n % 10)

\* a with zeros in front, n digits in all
NatPad(a, n) == [i \in 1..(n - Len(a)) |-> 0] \o a

\* the value of a digit sequence short enough for a machine integer
RECURSIVE NatToInt(_)
NatToInt(a) ==
    IF Len(a) = 1 THEN a[1]
    ELSE 10 * NatToInt(SubSeq(a, 1, Len(a) - 1)) + a[Len(a)]

\* the digits d and the carry c out of a + b + c for a, b of one length;
\* the low half is computed first (its carry is never negative)
RECURSIVE NatAddCarry(_, _, _)
NatAddCarry(a, b, c) ==
    IF Len(a) = 1
    THEN LET s == a[1] + b[1] + c IN [d |-> <<s % 10>>, c |-> s \div 10]
    ELSE LET h == Len(a) \div 2
             lo == NatAddCarry(SubSeq(a, h + 1, Len(a)),
                               SubSeq(b, h + 1, Len(b)), c)
         IN IF lo.c >= 0
            THEN LET hi == NatAddCarry(SubSeq(a, 1, h), SubSeq(b, 1, h), lo.c)
                 IN [d |-> hi.d \o lo.d, c |-> hi.c]
            ELSE lo

\* a + b
NatAdd(a, b) ==
    LET n == IF Len(a) > Len(b) THEN Len(a) ELSE Len(b)
        r == NatAddCarry(NatPad(a, n), NatPad(b, n), 0)
    IN NatStrip(<<r.c>> \o r.d)

NatLess(a, b) ==
    \/ Len(a) < Len(b)
    \/ /\ Len(a) = Len(b)
       /\ \E k \in 1..Len(a) :
              /\ a[k] < b[k]
              /\ \A j \in 1..(k - 1) : a[j] = b[j]

\* the digits d and the borrow c out of a - b - c for a, b of one length
RECURSIVE NatSubBorrow(_, _, _)
NatSubBorrow(a, b, c) ==
    IF Len(a) = 1
    THEN LET s == a[1] - b[1] - c
         IN [d |-> <<(s + 10) % 10>>, c |-> IF s < 0 THEN 1 ELSE 0]
    ELSE LET h == Len(a) \div 2
             lo == NatSubBorrow(SubSeq(a, h + 1, Len(a)),
                                SubSeq(b, h + 1, Len(b)), c)
         IN IF lo.c >= 0
            THEN LET hi == NatSubBorrow(SubSeq(a, 1, h), SubSeq(b, 1, h), lo.c)
                 IN [d |-> hi.d \o lo.d, c |-> hi.c]
            ELSE lo

\* a - b for a >= b
NatSub(a, b) == NatStrip(NatSubBorrow(a, NatPad(b, Len(a)), 0).d)

\* the digits d and the carry c out of a * m + c for a machine integer m
RECURSIVE NatMulCarry(_, _, _)
NatMulCarry(a, m, c) ==
    IF Len(a) = 1
    THEN LET s == a[1] * m + c IN [d |-> <<s % 10>>, c |-> s \div 10]
    ELSE LET h == Len(a) \div 2
             lo == NatMulCarry(SubSeq(a, h + 1, Len(a)), m, c)
         IN IF lo.c >= 0
            THEN LET hi == NatMulCarry(SubSeq(a, 1, h), m, lo.c)
                 IN [d |-> hi.d \o lo.d, c |-> hi.c]
            ELSE lo

\* a * m for a machine integer m of at most 8 digits
NatMulSmall(a, m) ==
    LET r == NatMulCarry(a, m, 0) IN NatStrip(NatOfInt(r.c) \o r.d)

\* a * 10^k
NatShift(a, k) == IF a = <<0>> THEN a ELSE a \o [i \in 1..k |-> 0]

\* a * b, b split in halves until a half fits a machine integer
RECURSIVE NatMul(_, _)
NatMul(a, b) ==
    IF Len(b) <= 8 THEN NatMulSmall(a, NatToInt(b))
    ELSE LET h == Len(b) \div 2
             lo == SubSeq(b, h + 1, Len(b))
         IN NatAdd(NatShift(NatMul(a, SubSeq(b, 1, h)), Len(lo)),
                   NatMul(a, NatStrip(lo)))

\* <<0, b, 2b, ..., kb>>
RECURSIVE NatMultiples(_, _)
NatMultiples(b, k) ==
    IF k = 0 THEN << <<0>> >>
    ELSE LET m == NatMultiples(b, k - 1) IN Append(m, NatAdd(m[k], b))

\* long division of (r * 10^Len(ds) + ds) by b, for r < b and m the
\* multiples 0..9 of b: one quotient digit per digit of ds, ds split in halves
RECURSIVE NatDivDigits(_, _, _)
NatDivDigits(r, ds, m) ==
    IF Len(ds) = 1
    THEN LET cur == NatStrip(r \o ds)
             d == CHOOSE k \in 0..9 :
                      /\ ~NatLess(cur, m[k + 1])
                      /\ k = 9 \/ NatLess(cur, m[k + 2])
         IN [q |-> <<d>>, r |-> NatSub(cur, m[d + 1])]
    ELSE LET h == Len(ds) \div 2
             hi == NatDivDigits(r, SubSeq(ds, 1, h), m)
             lo == NatDivDigits(hi.r, SubSeq(ds, h + 1, Len(ds)), m)
         IN [q |-> hi.q \o lo.q, r |-> lo.r]

\* the same division by a machine integer b of at most 8 digits, the
\* remainder a machine integer
RECURSIVE NatDivSmall(_, _, _)
NatDivSmall(r, ds, b) ==
    IF Len(ds) = 1
    THEN LET cur == 10 * r + ds[1] IN [q |-> <<cur \div b>>, r |-> cur % b]
    ELSE LET h == Len(ds) \div 2
             hi == NatDivSmall(r, SubSeq(ds, 1, h), b)
             lo == NatDivSmall(hi.r, SubSeq(ds, h + 1, Len(ds)), b)
         IN [q |-> hi.q \o lo.q, r |-> lo.r]

\* divmod(a, b) for b # 0
NatDivMod(a, b) ==
    IF Len(b) <= 8
    THEN LET dm == NatDivSmall(0, a, NatToInt(b))
         IN [q |-> NatStrip(dm.q), r |-> NatOfInt(dm.r)]
    ELSE LET dm == NatDivDigits(<<0>>, a, NatMultiples(b, 9))
         IN [q |-> NatStrip(dm.q), r |-> dm.r]

\* decimal.getcontext().prec: significant digits an arithmetic result keeps
DecimalPrec == 28

\* Decimal(n) of a Python int: sign, coefficient digits, exponent
Decimal(n) ==
    [sign |-> IF n < 0 THEN 1 ELSE 0,
     int |-> NatOfInt(IF n < 0 THEN 0 - n ELSE n),
     exp |-> 0]

\* Decimal("c E e") for a non-negative coefficient c: DecimalLit(350, -2) is
\* Decimal("3.50")
DecimalLit(c, e) == [sign |-> 0, int |-> NatOfInt(c), exp |-> e]

\* Decimal._fix: round the coefficient to the context precision, ROUND_HALF_EVEN
Decimal_fix(d) ==
    IF Len(d.int) <= DecimalPrec THEN d
    ELSE LET drop == Len(d.int) - DecimalPrec
             kept == SubSeq(d.int, 1, DecimalPrec)
             first == d.int[DecimalPrec + 1]
             restzero == \A k \in (DecimalPrec + 2)..Len(d.int) : d.int[k] = 0
             roundup ==
                 \/ first > 5
                 \/ first = 5 /\ ~restzero
                 \/ first = 5 /\ restzero /\ kept[DecimalPrec] % 2 = 1
             coef == IF roundup THEN NatAdd(kept, <<1>>) ELSE kept
         IN IF Len(coef) > DecimalPrec
            THEN [sign |-> d.sign, int |-> SubSeq(coef, 1, DecimalPrec),
                  exp |-> d.exp + drop + 1]
            ELSE [sign |-> d.sign, int |-> coef, exp |-> d.exp + drop]

Decimal_is_zero(d) == d.int = <<0>>

\* Decimal.__neg__ / copy_negate
Decimal_neg(d) == [d EXCEPT !.sign = 1 - @]

\* the exact sum of two Decimals, at the smaller exponent
Decimal_sum(a, b) ==
    LET e == IF a.exp < b.exp THEN a.exp ELSE b.exp
        ca == NatShift(a.int, a.exp - e)
        cb == NatShift(b.int, b.exp - e)
    IN IF a.sign = b.sign
       THEN [sign |-> IF Decimal_is_zero(a) /\ Decimal_is_zero(b)
                      THEN (IF a.sign = 1 /\ b.sign = 1 THEN 1 ELSE 0)
                      ELSE a.sign,
             int |-> NatAdd(ca, cb), exp |-> e]
       ELSE IF ca = cb THEN [sign |-> 0, int |-> <<0>>, exp |-> e]
       ELSE IF NatLess(cb, ca)
       THEN [sign |-> a.sign, int |-> NatSub(ca, cb), exp |-> e]
       ELSE [sign |-> b.sign, int |-> NatSub(cb, ca), exp |-> e]

\* the exact product of two Decimals
Decimal_product(a, b) ==
    [sign |-> IF a.sign = b.sign THEN 0 ELSE 1,
     int |-> NatMul(a.int, b.int),
     exp |-> a.exp + b.exp]

\* Decimal.__add__: the exact sum, then _fix
Decimal_add(a, b) == Decimal_fix(Decimal_sum(a, b))

\* Decimal.__sub__
Decimal_sub(a, b) == Decimal_add(a, Decimal_neg(b))

\* Decimal.__mul__: the exact product, then _fix
Decimal_mul(a, b) == Decimal_fix(Decimal_product(a, b))

\* the number of trailing zeros of a coefficient (0 for zero itself)
NatTrailingZeros(a) ==
    LET nz == {k \in 1..Len(a) : a[k] # 0}
    IN IF nz = {} THEN 0
       ELSE Len(a) - (CHOOSE k \in nz : \A j \in nz : k >= j)

\* the trailing zeros __truediv__ removes from an exact quotient
Decimal_trim(d, ideal_exp) ==
    LET room == IF ideal_exp > d.exp THEN ideal_exp - d.exp ELSE 0
        tz == IF Decimal_is_zero(d) THEN 0 ELSE NatTrailingZeros(d.int)
        n == IF tz < room THEN tz ELSE room
    IN [d EXCEPT !.int = SubSeq(@, 1, Len(@) - n), !.exp = @ + n]

\* the exception Decimal.__truediv__ raises on a zero divisor
DivisionByZero == [error |-> "DivisionByZero"]

Raised(v) == "error" \in DOMAIN v

\* Decimal.__truediv__
Decimal_truediv(a, b) ==
    IF Decimal_is_zero(b) THEN DivisionByZero
    ELSE LET sign == IF a.sign = b.sign THEN 0 ELSE 1 IN
         IF Decimal_is_zero(a)
         THEN [sign |-> sign, int |-> <<0>>, exp |-> a.exp - b.exp]
         ELSE LET shift == Len(b.int) - Len(a.int) + DecimalPrec + 1
                  dm == IF shift >= 0
                        THEN NatDivMod(NatShift(a.int, shift), b.int)
                        ELSE NatDivMod(a.int, NatShift(b.int, 0 - shift))
                  exp == a.exp - b.exp - shift
              IN IF dm.r # <<0>>
                 THEN Decimal_fix(
                          [sign |-> sign,
                           int |-> IF dm.q[Len(dm.q)] % 5 = 0
                                   THEN NatAdd(dm.q, <<1>>) ELSE dm.q,
                           exp |-> exp])
                 ELSE Decimal_fix(
                          Decimal_trim([sign |-> sign, int |-> dm.q, exp |-> exp],
                                       a.exp - b.exp))

\* the value of a Decimal without its trailing zeros: two Decimals compare
\* equal (==) exactly when their normal forms are the same
Decimal_normalize(d) ==
    IF Decimal_is_zero(d) THEN [sign |-> 0, int |-> <<0>>, exp |-> 0]
    ELSE LET n == NatTrailingZeros(d.int)
         IN [d EXCEPT !.int = SubSeq(@, 1, Len(@) - n), !.exp = @ + n]

Decimal_eq(a, b) == Decimal_normalize(a) = Decimal_normalize(b)

\* a < 0
Decimal_is_negative(d) == d.sign = 1 /\ ~Decimal_is_zero(d)

\* a < b
Decimal_less(a, b) == Decimal_is_negative(Decimal_sum(a, Decimal_neg(b)))

\* --------------------------------------------------------------- schemas
\* Variant: a PositionUpdate schema that also declares status.
PositionUpdateFields_WithStatus ==
    {"account_id", "ticker", "type", "open_date", "expiration_date",
     "strike_price", "contracts", "premium_per_share", "multiplier",
     "open_fees", "close_fees", "close_price_per_share", "notes", "tags",
     "status"}

\* Fields of PositionUpdate; any other key of the request body is ignored.
PositionUpdateFields ==
    {"account_id", "ticker", "type", "open_date", "expiration_date",
     "strike_price", "contracts", "premium_per_share", "multiplier",
     "open_fees", "close_fees", "close_price_per_share", "notes", "tags"}

AccountUpdateFields == {"name", "broker", "tax_treatment"}

\* Variant: a PositionClose whose outcome is the PositionOutcome enum.
CloseOutcomes_WithRolled == {"EXPIRED", "ASSIGNED", "CLOSED_EARLY", "ROLLED"}

\* Outcomes PositionClose accepts.
CloseOutcomes == {"EXPIRED", "ASSIGNED", "CLOSED_EARLY"}

\* Variant: the ticker column declared nullable.
PositionRequiredColumns_TickerNullable ==
    {"user_id", "account_id", "type", "status", "open_date",
     "expiration_date", "strike_price", "contracts", "multiplier",
     "premium_per_share", "open_fees", "close_fees"}

\* Columns declared nullable=False.
PositionRequiredColumns ==
    {"user_id", "account_id", "ticker", "type", "status", "open_date",
     "expiration_date", "strike_price", "contracts", "multiplier",
     "premium_per_share", "open_fees", "close_fees"}

AccountRequiredColumns == {"user_id", "name", "broker"}

PositionTypeValues == {"COVERED_CALL", "CASH_SECURED_PUT"}

PositionCreateRequired ==
    {"account_id", "ticker", "type", "open_date", "expiration_date",
     "strike_price", "contracts", "premium_per_share"}

\* PositionCreate: validation of a request body. A missing required field or
\* an unknown type is a validation error; a key the schema does not declare
\* is dropped; multiplier, open_fees, notes and tags take their defaults.
PositionCreate(raw) ==
    IF \/ ~(PositionCreateRequired \subseteq DOMAIN raw)
       \/ raw.type \notin PositionTypeValues
    THEN [ok |-> FALSE]
    ELSE [ok |-> TRUE,
          body |->
              [account_id |-> raw.account_id,
               ticker |-> raw.ticker,
               type |-> <<"PositionType", raw.type>>,
               open_date |-> raw.open_date,
               expiration_date |-> raw.expiration_date,
               strike_price |-> raw.strike_price,
               contracts |-> raw.contracts,
               premium_per_share |-> raw.premium_per_share,
               multiplier |->
                   IF "multiplier" \in DOMAIN raw THEN raw.multiplier ELSE 100,
               open_fees |->
                   IF "open_fees" \in DOMAIN raw THEN raw.open_fees ELSE Decimal(0),
               notes |-> IF "notes" \in DOMAIN raw THEN raw.notes ELSE None,
               tags |-> IF "tags" \in DOMAIN raw THEN raw.tags ELSE None]]

\* PositionClose: an outcome outside the Literal is a validation error;
\* close_price_per_share and close_fees default to None.
PositionClose(raw) ==
    IF \/ ~({"outcome", "close_date"} \subseteq DOMAIN raw)
       \/ raw.outcome \notin CloseOutcomes
    THEN [ok |-> FALSE]
    ELSE [ok |-> TRUE,
          body |->
              [outcome |-> raw.outcome,
               close_date |-> raw.close_date,
               close_price_per_share |->
                   IF "close_price_per_share" \in DOMAIN raw
                   THEN raw.close_price_per_share ELSE None,
               close_fees |->
                   IF "close_fees" \in DOMAIN raw THEN raw.close_fees ELSE None]]

\* PositionRollClose: PositionClose without the outcome; an outcome sent in
\* the body is dropped like any other undeclared key.
PositionRollClose(raw) ==
    IF "close_date" \notin DOMAIN raw THEN [ok |-> FALSE]
    ELSE [ok |-> TRUE,
          body |->
              [close_date |-> raw.close_date,
               close_price_per_share |->
                   IF "close_price_per_share" \in DOMAIN raw
                   THEN raw.close_price_per_share ELSE None,
               close_fees |->
                   IF "close_fees" \in DOMAIN raw THEN raw.close_fees ELSE None]]

\* Variant: a schema that keeps the keys it does not declare (extra="allow").
model_dump_KeepExtras(body, fields) == body

\* body.model_dump(exclude_unset=True): the keys the request carried that the
\* schema declares, explicit nulls included.
model_dump(body, fields) == [f \in (DOMAIN body) \cap fields |-> body[f]]

\* ---------------------------------------------------------------- queries
\* db.query(Account).filter(Account.id == id, Account.user_id == u).first()
\* as a row number, 0 for None.
FindAccount(as, id, u) ==
    LET S == {i \in DOMAIN as : as[i].id = id /\ as[i].user_id = u}
    IN IF S = {} THEN 0 ELSE CHOOSE i \in S : \A j \in S : i <= j

\* Variant: the position lookup without the Position.user_id filter.
FindPosition_AnyUser(ps, id, u) ==
    LET S == {i \in DOMAIN ps : ps[i].id = id}
    IN IF S = {} THEN 0 ELSE CHOOSE i \in S : \A j \in S : i <= j

\* db.query(Position).filter(Position.id == id, Position.user_id == u).first()
FindPosition(ps, id, u) ==
    LET S == {i \in DOMAIN ps : ps[i].id = id /\ ps[i].user_id = u}
    IN IF S = {} THEN 0 ELSE CHOOSE i \in S : \A j \in S : i <= j

\* -------------------------------------------------------------- accounts
\* GET /accounts
list_accounts(as, u) ==
    LET Own(a) == a.user_id = u IN SelectSeq(as, Own)

create_account(as, u, body) ==
    [result |-> "OK",
     accounts |-> Append(as, [id |-> Len(as) + 1,
                              user_id |-> u,
                              name |-> body.name,
                              broker |-> EnumValue(body.broker),
                              tax_treatment |-> body.tax_treatment])]

\* setattr(account, field, value) for every dumped field
AccountSetAttrs(a, update_data) ==
    [f \in DOMAIN a |->
        IF f \in DOMAIN update_data
        THEN IF f = "tax_treatment" THEN update_data[f]
             ELSE IF f = "broker" THEN EnumValue(update_data[f][1])
             ELSE update_data[f][1]
        ELSE a[f]]

update_account(as, u, aid, body) ==
    LET i == FindAccount(as, aid, u) IN
    IF i = 0 THEN [result |-> "AccountNotFound", accounts |-> as]
    ELSE LET update_data == model_dump(body, AccountUpdateFields) IN
         IF \E f \in DOMAIN update_data :
                f \in AccountRequiredColumns /\ update_data[f] = None
         THEN [result |-> "IntegrityError", accounts |-> as]
         ELSE [result |-> "OK",
               accounts |-> [as EXCEPT ![i] = AccountSetAttrs(as[i], update_data)]]

\* ------------------------------------------------------------- positions
\* Variant: Position(...) built with the ticker as sent.
NewPosition_NoUpper(id, u, o, rgid) ==
    [id |-> id,
     user_id |-> u,
     account_id |-> o.account_id,
     ticker |-> o.ticker,
     type |-> EnumValue(o.type),
     status |-> "OPEN",
     open_date |-> o.open_date,
     expiration_date |-> o.expiration_date,
     close_date |-> None,
     strike_price |-> o.strike_price,
     contracts |-> o.contracts,
     multiplier |-> o.multiplier,
     premium_per_share |-> o.premium_per_share,
     open_fees |-> o.open_fees,
     close_fees |-> Decimal(0),
     close_price_per_share |-> None,
     outcome |-> None,
     roll_group_id |-> rgid,
     notes |-> o.notes,
     tags |-> o.tags]

\* Position(...) as built by create_position and roll_position, with the
\* server defaults of the columns the handler does not set.
NewPosition(id, u, o, rgid) ==
    [id |-> id,
     user_id |-> u,
     account_id |-> o.account_id,
     ticker |-> Upper(o.ticker),
     type |-> EnumValue(o.type),
     status |-> "OPEN",
     open_date |-> o.open_date,
     expiration_date |-> o.expiration_date,
     close_date |-> None,
     strike_price |-> o.strike_price,
     contracts |-> o.contracts,
     multiplier |-> o.multiplier,
     premium_per_share |-> o.premium_per_share,
     open_fees |-> o.open_fees,
     close_fees |-> Decimal(0),
     close_price_per_share |-> None,
     outcome |-> None,
     roll_group_id |-> rgid,
     notes |-> o.notes,
     tags |-> o.tags]

\* Variant: create_position without the account lookup.
create_position_NoAccountCheck(ps, as, u, body) ==
    [result |-> "OK",
     positions |-> Append(ps, NewPosition(Len(ps) + 1, u, body, None))]

create_position(ps, as, u, body) ==
    IF FindAccount(as, body.account_id, u) = 0
    THEN [result |-> "AccountNotOwned", positions |-> ps]
    ELSE [result |-> "OK",
          positions |-> Append(ps, NewPosition(Len(ps) + 1, u, body, None))]

\* Variant: the setattr loop without the ticker.upper() branch.
PositionSetAttrs_NoUpper(p, update_data) ==
    [f \in DOMAIN p |->
        IF f \in DOMAIN update_data
        THEN IF f \in PositionRequiredColumns
             THEN IF f = "type" THEN EnumValue(update_data[f][1])
                  ELSE update_data[f][1]
             ELSE update_data[f]
        ELSE p[f]]

\* setattr(position, field, value) for every dumped field, with the ticker
\* uppercased and the type enum replaced by its value.
PositionSetAttrs(p, update_data) ==
    [f \in DOMAIN p |->
        IF f \in DOMAIN update_data
        THEN IF f \in PositionRequiredColumns
             THEN IF f = "ticker" THEN Upper(update_data[f][1])
                  ELSE IF f = "type" THEN EnumValue(update_data[f][1])
                  ELSE update_data[f][1]
             ELSE update_data[f]
        ELSE p[f]]

\* db.commit() of an update: the flush violates a NOT NULL constraint when a
\* nullable=False column was set to None.
NotNullViolation(update_data) ==
    \E f \in DOMAIN update_data :
        f \in PositionRequiredColumns /\ update_data[f] = None

\* Variant: update_position without the lookup of the new account.
update_position_NoAccountCheck(ps, as, u, pid, body) ==
    LET i == FindPosition(ps, pid, u) IN
    IF i = 0 THEN [result |-> "PositionNotFound", positions |-> ps]
    ELSE LET update_data == model_dump(body, PositionUpdateFields) IN
         IF NotNullViolation(update_data)
         THEN [result |-> "IntegrityError", positions |-> ps]
         ELSE [result |-> "OK",
               positions |-> [ps EXCEPT ![i] = PositionSetAttrs(ps[i], update_data)]]

update_position(ps, as, u, pid, body) ==
    LET i == FindPosition(ps, pid, u) IN
    IF i = 0 THEN [result |-> "PositionNotFound", positions |-> ps]
    ELSE LET update_data == model_dump(body, PositionUpdateFields) IN
         IF /\ "account_id" \in DOMAIN update_data
            /\ update_data["account_id"] # None
            /\ FindAccount(as, update_data["account_id"][1], u) = 0
         THEN [result |-> "AccountNotOwned", positions |-> ps]
         ELSE IF NotNullViolation(update_data)
         THEN [result |-> "IntegrityError", positions |-> ps]
         ELSE [result |-> "OK",
               positions |-> [ps EXCEPT ![i] = PositionSetAttrs(ps[i], update_data)]]

\* Variant: close_position assigning close_price_per_share and close_fees
\* whether or not the body carries them.
CloseAttrs_AlwaysAssign(p, body) ==
    [p EXCEPT
        !.status = "CLOSED",
        !.outcome = Some(body.outcome),
        !.close_date = Some(body.close_date),
        !.close_price_per_share = body.close_price_per_share,
        !.close_fees =
            IF body.close_fees # None THEN body.close_fees[1] ELSE Decimal(0)]

\* The assignments close_position makes to the loaded row.
CloseAttrs(p, body) ==
    [p EXCEPT
        !.status = "CLOSED",
        !.outcome = Some(body.outcome),
        !.close_date = Some(body.close_date),
        !.close_price_per_share =
            IF body.close_price_per_share # None
            THEN body.close_price_per_share ELSE @,
        !.close_fees =
            IF body.close_fees # None THEN body.close_fees[1] ELSE @]

\* Variant: close_position without the status check.
close_position_NoClosedCheck(ps, u, pid, body) ==
    LET i == FindPosition(ps, pid, u) IN
    IF i = 0 THEN [result |-> "PositionNotFound", positions |-> ps]
    ELSE [result |-> "OK", positions |-> [ps EXCEPT ![i] = CloseAttrs(ps[i], body)]]

close_position(ps, u, pid, body) ==
    LET i == FindPosition(ps, pid, u) IN
    IF i = 0 THEN [result |-> "PositionNotFound", positions |-> ps]
    ELSE IF ps[i].status = "CLOSED"
    THEN [result |-> "AlreadyClosed", positions |-> ps]
    ELSE [result |-> "OK", positions |-> [ps EXCEPT ![i] = CloseAttrs(ps[i], body)]]

\* The assignments roll_position makes to the old position.
RollClosed(p, close, rgid) ==
    [p EXCEPT
        !.status = "CLOSED",
        !.outcome = Some("ROLLED"),
        !.roll_group_id = Some(rgid),
        !.close_date = Some(close.close_date),
        !.close_price_per_share =
            IF close.close_price_per_share # None
            THEN close.close_price_per_share ELSE @,
        !.close_fees =
            IF close.close_fees # None THEN close.close_fees[1] ELSE @]

\* Variant: the new leg built without roll_group_id.
RollOpened_NoGroup(u, open, rgid) == NewPosition(0, u, open, None)

\* The new leg roll_position adds to the session (its id is assigned on
\* insert; 0 stands for "not yet inserted").
RollOpened(u, open, rgid) == NewPosition(0, u, open, Some(rgid))

\* Variant: roll_position keeping the roll group id the old row already has.
roll_stage_KeepGroup(ps, as, u, pid, body, rgid) ==
    LET i == FindPosition(ps, pid, u) IN
    IF i = 0 THEN [result |-> "PositionNotFound"]
    ELSE IF ps[i].status = "CLOSED" THEN [result |-> "AlreadyClosed"]
    ELSE IF FindAccount(as, body.open.account_id, u) = 0
    THEN [result |-> "AccountNotOwned"]
    ELSE LET g == IF ps[i].roll_group_id # None THEN ps[i].roll_group_id[1]
                  ELSE rgid
         IN  [result |-> "OK",
              user |-> u,
              pid |-> ps[i].id,
              roll_group_id |-> g,
              loaded |-> ps[i],
              closed |-> RollClosed(ps[i], body.close, g),
              opened |-> RollOpened(u, body.open, g)]

\* Variant: the new leg's account is looked up before the status is read.
roll_stage_AccountFirst(ps, as, u, pid, body, rgid) ==
    LET i == FindPosition(ps, pid, u) IN
    IF i = 0 THEN [result |-> "PositionNotFound"]
    ELSE IF FindAccount(as, body.open.account_id, u) = 0
    THEN [result |-> "AccountNotOwned"]
    ELSE IF ps[i].status = "CLOSED" THEN [result |-> "AlreadyClosed"]
    ELSE [result |-> "OK",
          user |-> u,
          pid |-> ps[i].id,
          roll_group_id |-> rgid,
          loaded |-> ps[i],
          closed |-> RollClosed(ps[i], body.close, rgid),
          opened |-> RollOpened(u, body.open, rgid)]

\* Variant: roll_position without the lookup of the new leg's account.
roll_stage_NoAccountCheck(ps, as, u, pid, body, rgid) ==
    LET i == FindPosition(ps, pid, u) IN
    IF i = 0 THEN [result |-> "PositionNotFound"]
    ELSE IF ps[i].status = "CLOSED" THEN [result |-> "AlreadyClosed"]
    ELSE [result |-> "OK",
          user |-> u,
          pid |-> ps[i].id,
          roll_group_id |-> rgid,
          loaded |-> ps[i],
          closed |-> RollClosed(ps[i], body.close, rgid),
          opened |-> RollOpened(u, body.open, rgid)]

\* roll_position up to, and excluding, db.commit(): the lookups, the three
\* checks, and the two pending changes of the session.
roll_stage(ps, as, u, pid, body, rgid) ==
    LET i == FindPosition(ps, pid, u) IN
    IF i = 0 THEN [result |-> "PositionNotFound"]
    ELSE IF ps[i].status = "CLOSED" THEN [result |-> "AlreadyClosed"]
    ELSE IF FindAccount(as, body.open.account_id, u) = 0
    THEN [result |-> "AccountNotOwned"]
    ELSE [result |-> "OK",
          user |-> u,
          pid |-> ps[i].id,
          roll_group_id |-> rgid,
          loaded |-> ps[i],
          closed |-> RollClosed(ps[i], body.close, rgid),
          opened |-> RollOpened(u, body.open, rgid)]

\* Variant: a commit that writes the old row and loses the new one (as when
\* the handler commits before db.add(new_position)).
roll_commit_CloseOnly(ps, st) ==
    [i \in DOMAIN ps |->
        IF ps[i].id = st.pid
        THEN [f \in DOMAIN ps[i] |->
                 IF st.closed[f] # st.loaded[f] THEN st.closed[f] ELSE ps[i][f]]
        ELSE ps[i]]

\* Variant: a roll that turns the old row into the new leg (as when the
\* handler reassigns the loaded object instead of adding a Position).
roll_commit_ReplaceOld(ps, st) ==
    [i \in DOMAIN ps |->
        IF ps[i].id = st.pid THEN [st.opened EXCEPT !.id = ps[i].id]
        ELSE ps[i]]

\* db.commit() of a roll: one transaction that UPDATEs the columns of the old
\* row the session changed and INSERTs the new row.
roll_commit(ps, st) ==
    LET S == {i \in DOMAIN ps : ps[i].id = st.pid}
        upd == [i \in DOMAIN ps |->
                   IF i \in S
                   THEN [f \in DOMAIN ps[i] |->
                            IF st.closed[f] # st.loaded[f]
                            THEN st.closed[f] ELSE ps[i][f]]
                   ELSE ps[i]]
    IN Append(upd, [st.opened EXCEPT !.id = Len(ps) + 1])

\* The session is closed without a commit: pending changes are discarded.
session_rollback(ps) == ps

\* roll_position run to completion with no other request in between.
roll_position(ps, as, u, pid, body, rgid) ==
    LET st == roll_stage(ps, as, u, pid, body, rgid) IN
    IF st.result # "OK"
    THEN [result |-> st.result, positions |-> ps]
    ELSE [result |-> "OK", positions |-> roll_commit(ps, st)]

\* POST /positions: the body is validated before create_position runs.
create_position_request(ps, as, u, raw) ==
    LET v == PositionCreate(raw) IN
    IF ~v.ok THEN [result |-> "ValidationError", positions |-> ps]
    ELSE create_position(ps, as, u, v.body)

\* POST /positions/{id}/close: the body is validated before close_position
\* runs.
close_position_request(ps, u, pid, raw) ==
    LET v == PositionClose(raw) IN
    IF ~v.ok THEN [result |-> "ValidationError", positions |-> ps]
    ELSE close_position(ps, u, pid, v.body)

\* POST /positions/{id}/roll: body.close and body.open are validated before
\* roll_position runs.
roll_position_request(ps, as, u, pid, raw, rgid) ==
    LET c == PositionRollClose(raw.close)
        o == PositionCreate(raw.open)
    IN IF ~c.ok \/ ~o.ok THEN [result |-> "ValidationError", positions |-> ps]
       ELSE roll_position(ps, as, u, pid, [close |-> c.body, open |-> o.body], rgid)

\* uuid4(): an id no earlier call returned.
uuid4(n) == n + 1

\* ---------------------------------------------------------- request bodies
AccountCreateBodies ==
    [name : {"main"}, broker : {ROBINHOOD}, tax_treatment : {None}]

AccountUpdateBodies ==
    {[name |-> None],
     [user_id |-> Some("u1"), name |-> Some("main"), broker |-> Some(ROBINHOOD)]}

PositionCreateBodies ==
    [account_id : Refs(accounts),
     ticker : {<<"a">>},
     type : {COVERED_CALL},
     open_date : {10},
     expiration_date : {40},
     strike_price : {DecimalLit(15000, -2)},
     contracts : {1},
     premium_per_share : {DecimalLit(350, -2)},
     multiplier : {100},
     open_fees : {Decimal(0)},
     notes : {None},
     tags : {None}]

EmptyBody == [f \in {} |-> None]

PositionUpdateBodies ==
    {EmptyBody,
     [ticker |-> None],
     [account_id |-> None],
     [user_id |-> Some("u1"), status |-> Some("OPEN"),
      close_price_per_share |-> Some(Decimal(2))]}
    \cup {[account_id |-> Some(a), ticker |-> Some(<<"a">>)] : a \in Refs(accounts)}

PositionCloseBodies ==
    [outcome : CloseOutcomes,
     close_date : {20},
     close_price_per_share : {None, Some(Decimal(2))},
     close_fees : {None}]

\* PositionRollClose: PositionClose without the outcome.
PositionRollCloseBodies ==
    [close_date : {20},
     close_price_per_share : {None},
     close_fees : {Some(Decimal(1))}]

\* PositionRoll: {close: PositionRollClose, open: PositionCreate}
PositionRollBodies ==
    [close : PositionRollCloseBodies, open : PositionCreateBodies]

\* ----------------------------------------------------------------- state
Init ==
    /\ accounts = <<>>
    /\ positions = <<>>
    /\ next_uuid = 0
    /\ last = [op |-> "none", result |-> "none"]
    /\ sessions = {}
    /\ price_cache = [t \in {} |-> <<>>]
    /\ clock = 0
    /\ price_calls = <<>>

CreateAccount(u, body, cap) ==
    /\ Len(accounts) < cap
    /\ LET r == create_account(accounts, u, body) IN
       /\ accounts' = r.accounts
       /\ last' = [op |-> "create_account", result |-> r.result]
    /\ UNCHANGED <<positions, next_uuid, sessions, price_cache, clock, price_calls>>

UpdateAccount(u, aid, body) ==
    /\ LET r == update_account(accounts, u, aid, body) IN
       /\ accounts' = r.accounts
       /\ last' = [op |-> "update_account", result |-> r.result]
    /\ UNCHANGED <<positions, next_uuid, sessions, price_cache, clock, price_calls>>

CreatePosition(u, body, cap) ==
    /\ LET r == create_position(positions, accounts, u, body) IN
       /\ r.result = "OK" => Len(positions) < cap
       /\ positions' = r.positions
       /\ last' = [op |-> "create", result |-> r.result]
    /\ UNCHANGED <<accounts, next_uuid, sessions, price_cache, clock, price_calls>>

UpdatePosition(u, pid, body) ==
    /\ LET r == update_position(positions, accounts, u, pid, body) IN
       /\ positions' = r.positions
       /\ last' = [op |-> "update", result |-> r.result]
    /\ UNCHANGED <<accounts, next_uuid, sessions, price_cache, clock, price_calls>>

ClosePosition(u, pid, body) ==
    /\ LET r == close_position(positions, u, pid, body) IN
       /\ positions' = r.positions
       /\ last' = [op |-> "close", result |-> r.result]
    /\ UNCHANGED <<accounts, next_uuid, sessions, price_cache, clock, price_calls>>

\* roll_position with no other request between its queries and its commit
RollPosition(u, pid, body, cap) ==
    /\ LET r == roll_position(positions, accounts, u, pid, body, uuid4(next_uuid)) IN
       /\ r.result = "OK" => Len(positions) < cap
       /\ positions' = r.positions
       /\ next_uuid' = IF r.result = "OK" THEN uuid4(next_uuid) ELSE next_uuid
       /\ last' = [op |-> "roll", result |-> r.result]
    /\ UNCHANGED <<accounts, sessions, price_cache, clock, price_calls>>

\* roll_position up to db.commit(), other requests being served meanwhile
RollBegin(u, pid, body) ==
    /\ LET st == roll_stage(positions, accounts, u, pid, body, uuid4(next_uuid)) IN
       IF st.result # "OK"
       THEN /\ last' = [op |-> "roll", result |-> st.result]
            /\ UNCHANGED <<next_uuid, sessions, price_cache, clock, price_calls>>
       ELSE /\ Cardinality(sessions) < MaxSessions
            /\ next_uuid < MaxRollAttempts
            /\ sessions' = sessions \cup {st}
            /\ next_uuid' = uuid4(next_uuid)
            /\ last' = [op |-> "roll", result |-> "pending"]
    /\ UNCHANGED <<accounts, positions, price_cache, clock, price_calls>>

\* db.commit() of a staged roll succeeds
RollCommit(st, cap) ==
    /\ Len(positions) < cap
    /\ positions' = roll_commit(positions, st)
    /\ sessions' = sessions \ {st}
    /\ last' = [op |-> "roll", result |-> "OK"]
    /\ UNCHANGED <<accounts, next_uuid, price_cache, clock, price_calls>>

\* db.commit() of a staged roll raises: the request ends with its session
\* closed and nothing of it applied
RollCommitFails(st) ==
    /\ positions' = session_rollback(positions)
    /\ sessions' = sessions \ {st}
    /\ last' = [op |-> "roll", result |-> "CommitFailed"]
    /\ UNCHANGED <<accounts, next_uuid, price_cache, clock, price_calls>>

\* Every handler runs to completion before the next request is served.
Next ==
    \/ \E u \in Users, body \in AccountCreateBodies :
           CreateAccount(u, body, MaxAccounts)
    \/ \E u \in Users, aid \in Refs(accounts), body \in AccountUpdateBodies :
           UpdateAccount(u, aid, body)
    \/ \E u \in Users, body \in PositionCreateBodies :
           CreatePosition(u, body, MaxPositions)
    \/ \E u \in Users, pid \in Refs(positions), body \in PositionUpdateBodies :
           UpdatePosition(u, pid, body)
    \/ \E u \in Users, pid \in Refs(positions), body \in PositionCloseBodies :
           ClosePosition(u, pid, body)
    \/ \E u \in Users, pid \in Refs(positions), body \in PositionRollBodies :
           RollPosition(u, pid, body, MaxPositions)

Spec == Init /\ [][Next]_vars

\* One user with one account, and room for a position to be rolled twice.
NextChain ==
    \/ \E body \in AccountCreateBodies : CreateAccount("u1", body, 1)
    \/ \E body \in PositionCreateBodies : CreatePosition("u1", body, MaxChain)
    \/ \E pid \in Refs(positions), body \in PositionUpdateBodies :
           UpdatePosition("u1", pid, body)
    \/ \E pid \in Refs(positions), body \in PositionCloseBodies :
           ClosePosition("u1", pid, body)
    \/ \E pid \in Refs(positions), body \in PositionRollBodies :
           RollPosition("u1", pid, body, MaxChain)

SpecChain == Init /\ [][NextChain]_vars

\* Bodies of the requests served between the two steps of a roll.
TxUpdateBodies ==
    {EmptyBody, [close_price_per_share |-> Some(Decimal(2))]}

TxCloseBodies ==
    [outcome : {"EXPIRED"},
     close_date : {20},
     close_price_per_share : {None},
     close_fees : {None}]

\* One user with one account; a roll is two steps (stage, commit) and other
\* requests are served between them.
NextTx ==
    \/ \E body \in AccountCreateBodies : CreateAccount("u1", body, 1)
    \/ \E body \in PositionCreateBodies : CreatePosition("u1", body, MaxTxPositions)
    \/ \E pid \in Refs(positions), body \in TxUpdateBodies :
           UpdatePosition("u1", pid, body)
    \/ \E pid \in Refs(positions), body \in TxCloseBodies :
           ClosePosition("u1", pid, body)
    \/ \E pid \in Refs(positions), body \in PositionRollBodies :
           RollBegin("u1", pid, body)
    \/ \E st \in sessions : RollCommit(st, MaxTxPositions)
    \/ \E st \in sessions : RollCommitFails(st)

SpecTx == Init /\ [][NextTx]_vars

\* ---------------------------------------------------------------- metrics
\* The computed fields of PositionResponse, for a row p of the positions
\* table.
premium_total(p) ==
    Decimal_mul(Decimal_mul(p.premium_per_share, Decimal(p.contracts)),
                Decimal(p.multiplier))

premium_net(p) ==
    Decimal_sub(Decimal_sub(premium_total(p), p.open_fees), p.close_fees)

collateral(p) ==
    Decimal_mul(Decimal_mul(p.strike_price, Decimal(p.contracts)),
                Decimal(p.multiplier))

\* Variant: roc_period without the collateral == 0 branch.
roc_period_NoGuard(p) == Decimal_truediv(premium_net(p), collateral(p))

roc_period(p) ==
    IF Decimal_is_zero(collateral(p)) THEN Decimal(0)
    ELSE Decimal_truediv(premium_net(p), collateral(p))

\* (close_date - open_date).days, or (expiration_date - open_date).days of a
\* position without close_date
days_in_trade(p) ==
    IF p.close_date # None THEN p.close_date[1] - p.open_date
    ELSE p.expiration_date - p.open_date

\* Variant: annualized_roc without the days_in_trade <= 0 branch.
annualized_roc_NoDaysGuard(p) ==
    IF Decimal_is_zero(collateral(p)) THEN Decimal(0)
    ELSE Decimal_truediv(Decimal_mul(roc_period(p), Decimal(365)),
                         Decimal(days_in_trade(p)))

annualized_roc(p) ==
    IF Decimal_is_zero(collateral(p)) THEN Decimal(0)
    ELSE IF days_in_trade(p) <= 0 THEN Decimal(0)
    ELSE LET roc == roc_period(p) IN
         IF Raised(roc) THEN roc
         ELSE Decimal_truediv(Decimal_mul(roc, Decimal(365)),
                              Decimal(days_in_trade(p)))

\* PositionResponse.model_validate(p): the stored fields and the computed
\* ones; today is date.today(). (created_at and updated_at, which no handler
\* reads or writes, are not columns of the model.)
PositionResponse(p, today) ==
    [id |-> p.id,
     user_id |-> p.user_id,
     account_id |-> p.account_id,
     ticker |-> p.ticker,
     type |-> p.type,
     status |-> p.status,
     open_date |-> p.open_date,
     expiration_date |-> p.expiration_date,
     close_date |-> p.close_date,
     strike_price |-> p.strike_price,
     contracts |-> p.contracts,
     multiplier |-> p.multiplier,
     premium_per_share |-> p.premium_per_share,
     open_fees |-> p.open_fees,
     close_fees |-> p.close_fees,
     close_price_per_share |-> p.close_price_per_share,
     outcome |-> p.outcome,
     roll_group_id |-> p.roll_group_id,
     notes |-> p.notes,
     tags |-> p.tags,
     premium_total |-> premium_total(p),
     premium_net |-> premium_net(p),
     collateral |-> collateral(p),
     roc_period |-> roc_period(p),
     dte |-> p.expiration_date - today,
     annualized_roc |-> annualized_roc(p)]

\* ------------------------------------------------------------------ reads
\* query.all() is SelectSeq: the rows of a table that pass the filters, in
\* table order.

\* Dates are day numbers of one year, 1 being January 1.
MonthLengths == <<31, 28, 31, 30, 31, 30, 31, 31, 30, 31, 30, 31>>

RECURSIVE MonthStartFrom(_, _, _)
MonthStartFrom(d, m, first) ==
    IF m = 12 \/ d < first + MonthLengths[m] THEN first
    ELSE MonthStartFrom(d, m + 1, first + MonthLengths[m])

\* today.replace(day=1)
month_start(today) == MonthStartFrom(today, 1, 1)

\* sum(values, Decimal("0")): additions from the left
RECURSIVE DecimalSum(_)
DecimalSum(values) ==
    IF Len(values) = 0 THEN Decimal(0)
    ELSE Decimal_add(DecimalSum(SubSeq(values, 1, Len(values) - 1)),
                     values[Len(values)])

\* Variant: _compute_premium without the CLOSED branch.
compute_premium_AlwaysTotal(p) == premium_total(p)

\* _compute_premium
compute_premium(p) ==
    IF p.status = "CLOSED"
    THEN Decimal_sub(Decimal_sub(premium_total(p), p.open_fees), p.close_fees)
    ELSE premium_total(p)

\* [_compute_premium(p) for p in rows]
Premiums(rows) ==
    SubSeq([i \in 1..Len(rows) |-> compute_premium(rows[i])], 1, Len(rows))

\* [PositionResponse.model_validate(p) for p in rows]
Responses(rows, today) ==
    SubSeq([i \in 1..Len(rows) |-> PositionResponse(rows[i], today)],
           1, Len(rows))

\* The order of a stable sort of n rows, as the indices of the rows:
\* before[i][j] says that row i sorts before row j, and a row comes after
\* the rows that sort before it and after the earlier rows it ties with.
StableOrder(n, before) ==
    LET pos(i) == 1 + Cardinality({j \in 1..n :
                        \/ before[j][i]
                        \/ ~before[i][j] /\ j < i})
    IN SubSeq([k \in 1..n |-> CHOOSE i \in 1..n : pos(i) = k], 1, n)

\* the code point of a character
CharCode(c) ==
    CASE c = "A" -> 65
      [] c = "M" -> 77
      [] c = "a" -> 97
      [] c = "m" -> 109

\* s < t for strings given as character sequences
StrLess(s, t) ==
    \/ Len(s) < Len(t) /\ SubSeq(t, 1, Len(s)) = s
    \/ \E i \in 1..Len(s) :
          /\ i <= Len(t)
          /\ SubSeq(s, 1, i - 1) = SubSeq(t, 1, i - 1)
          /\ CharCode(s[i]) < CharCode(t[i])

OPEN == <<"PositionStatus", "OPEN">>
CLOSED == <<"PositionStatus", "CLOSED">>

SORTABLE_COLUMNS ==
    {"open_date", "expiration_date", "ticker", "strike_price", "contracts",
     "premium_per_share", "status", "type", "created_at", "updated_at"}

\* a.col < b.col in the store's order. created_at and updated_at are both
\* the insertion time (no handler sets them), so they order rows as ids do;
\* the values of status and of type are ordered as strings.
ColumnLess(col, a, b) ==
    CASE col \in {"open_date", "expiration_date", "contracts"} ->
            a[col] < b[col]
      [] col \in {"strike_price", "premium_per_share"} ->
            Decimal_less(a[col], b[col])
      [] col = "ticker" -> StrLess(a.ticker, b.ticker)
      [] col = "status" -> a.status = "CLOSED" /\ b.status = "OPEN"
      [] col = "type" ->
            a.type = "CASH_SECURED_PUT" /\ b.type = "COVERED_CALL"
      [] col \in {"created_at", "updated_at"} -> a.id < b.id

\* str.lower() of the order parameter
Lower(s) == IF s = "ASC" THEN "asc" ELSE s

\* GET /positions. q holds the query parameters, None for an absent one.
list_positions(ps, u, q, today) ==
    LET Filter(p) ==
            /\ p.user_id = u
            /\ q.status # None => p.status = EnumValue(q.status[1])
            /\ q.ticker # None => p.ticker = Upper(q.ticker[1])
            /\ q.type # None => p.type = EnumValue(q.type[1])
            /\ q.account_id # None => p.account_id = q.account_id[1]
            /\ q.expiration_start # None =>
                   p.expiration_date >= q.expiration_start[1]
            /\ q.expiration_end # None =>
                   p.expiration_date <= q.expiration_end[1]
        sort_col_name ==
            IF q.sort \in SORTABLE_COLUMNS THEN q.sort ELSE "open_date"
        rows == SelectSeq(ps, Filter)
        n == Len(rows)
        before == [i \in 1..n |-> [j \in 1..n |->
                      IF Lower(q.order) = "asc"
                      THEN ColumnLess(sort_col_name, rows[i], rows[j])
                      ELSE ColumnLess(sort_col_name, rows[j], rows[i])]]
        order == StableOrder(n, before)
    IN Responses(SubSeq([k \in 1..n |-> rows[order[k]]], 1, n), today)

\* Variant: the date-range query without the filter on the user.
DateRangeQuery_AnyUser(ps, u, start, end) ==
    LET Filter(p) ==
            /\ start # None => p.open_date >= start[1]
            /\ end # None => p.open_date <= end[1]
    IN SelectSeq(ps, Filter)

\* the rows of a user opened within [start, end], either bound optional
DateRangeQuery(ps, u, start, end) ==
    LET Filter(p) ==
            /\ p.user_id = u
            /\ start # None => p.open_date >= start[1]
            /\ end # None => p.open_date <= end[1]
    IN SelectSeq(ps, Filter)

UpcomingDays == 7

\* Variant: the summary with the month-to-date and open queries narrowed to
\* the window.
dashboard_summary_AllInWindow(ps, u, start, end, today) ==
    LET rows == DateRangeQuery(ps, u, start, end)
        mtd_start == month_start(today)
        MtdFilter(p) == p.open_date >= mtd_start
        OpenFilter(p) == p.status = "OPEN"
        open_positions == SelectSeq(rows, OpenFilter)
        expiration_cutoff == today + UpcomingDays
        Upcoming(p) == p.expiration_date <= expiration_cutoff
    IN [total_premium_collected |-> DecimalSum(Premiums(rows)),
        premium_mtd |-> DecimalSum(Premiums(SelectSeq(rows, MtdFilter))),
        open_position_count |-> Len(open_positions),
        upcoming_expirations |->
            Responses(SelectSeq(open_positions, Upcoming), today)]

\* Variant: the summary whose upcoming expirations leave out the positions
\* that are past their expiration date.
dashboard_summary_FutureOnly(ps, u, start, end, today) ==
    LET rows == DateRangeQuery(ps, u, start, end)
        mtd_start == month_start(today)
        MtdFilter(p) == p.user_id = u /\ p.open_date >= mtd_start
        OpenFilter(p) == p.user_id = u /\ p.status = "OPEN"
        open_positions == SelectSeq(ps, OpenFilter)
        expiration_cutoff == today + UpcomingDays
        Upcoming(p) == /\ p.expiration_date <= expiration_cutoff
                       /\ p.expiration_date >= today
    IN [total_premium_collected |-> DecimalSum(Premiums(rows)),
        premium_mtd |-> DecimalSum(Premiums(SelectSeq(ps, MtdFilter))),
        open_position_count |-> Len(open_positions),
        upcoming_expirations |->
            Responses(SelectSeq(open_positions, Upcoming), today)]

\* GET /dashboard/summary
dashboard_summary(ps, u, start, end, today) ==
    LET rows == DateRangeQuery(ps, u, start, end)
        mtd_start == month_start(today)
        MtdFilter(p) == p.user_id = u /\ p.open_date >= mtd_start
        mtd_positions == SelectSeq(ps, MtdFilter)
        OpenFilter(p) == p.user_id = u /\ p.status = "OPEN"
        open_positions == SelectSeq(ps, OpenFilter)
        expiration_cutoff == today + UpcomingDays
        Upcoming(p) == p.expiration_date <= expiration_cutoff
    IN [total_premium_collected |-> DecimalSum(Premiums(rows)),
        premium_mtd |-> DecimalSum(Premiums(mtd_positions)),
        open_position_count |-> Len(open_positions),
        upcoming_expirations |->
            Responses(SelectSeq(open_positions, Upcoming), today)]

\* Variant: one key per position, a ticker as often as it occurs.
FirstTickers_PerPosition(rows) ==
    SubSeq([k \in 1..Len(rows) |-> rows[k].ticker], 1, Len(rows))

\* the keys of by_ticker in insertion order: each ticker where it first occurs
FirstTickers(rows) ==
    LET First(i) == \A j \in 1..(i - 1) : rows[j].ticker # rows[i].ticker
        idx == {i \in 1..Len(rows) : First(i)}
        nth(k) == CHOOSE i \in idx : Cardinality({j \in idx : j < i}) = k - 1
    IN SubSeq([k \in 1..Cardinality(idx) |-> rows[nth(k)].ticker],
              1, Cardinality(idx))

\* Variant: the roc loop dividing the premium before fees by the collateral.
AnnualizedTerm_BeforeFees(p) ==
    LET coll == Decimal_mul(Decimal_mul(p.strike_price, Decimal(p.contracts)),
                            Decimal(p.multiplier))
        total == Decimal_mul(Decimal_mul(p.premium_per_share,
                                         Decimal(p.contracts)),
                             Decimal(p.multiplier))
        days == IF p.close_date # None THEN p.close_date[1] - p.open_date
                ELSE p.expiration_date - p.open_date
    IN IF Decimal_is_zero(coll) THEN None
       ELSE IF days <= 0 THEN None
       ELSE Some(Decimal_truediv(
                Decimal_mul(Decimal_truediv(total, coll), Decimal(365)),
                Decimal(days)))

\* the term a position adds to roc_sum, None when the loop skips it
AnnualizedTerm(p) ==
    LET coll == Decimal_mul(Decimal_mul(p.strike_price, Decimal(p.contracts)),
                            Decimal(p.multiplier))
        total == Decimal_mul(Decimal_mul(p.premium_per_share,
                                         Decimal(p.contracts)),
                             Decimal(p.multiplier))
        net == Decimal_sub(Decimal_sub(total, p.open_fees), p.close_fees)
        days == IF p.close_date # None THEN p.close_date[1] - p.open_date
                ELSE p.expiration_date - p.open_date
    IN IF Decimal_is_zero(coll) THEN None
       ELSE IF days <= 0 THEN None
       ELSE Some(Decimal_truediv(
                Decimal_mul(Decimal_truediv(net, coll), Decimal(365)),
                Decimal(days)))

\* roc_sum after the loop over the positions of one ticker
RECURSIVE RocSum(_)
RocSum(rows) ==
    IF Len(rows) = 0 THEN Decimal(0)
    ELSE LET rest == RocSum(SubSeq(rows, 1, Len(rows) - 1))
             term == AnnualizedTerm(rows[Len(rows)])
         IN IF term = None THEN rest ELSE Decimal_add(rest, term[1])

TickerSummary(rows, ticker) ==
    LET SameTicker(p) == p.ticker = ticker
        ticker_positions == SelectSeq(rows, SameTicker)
        trade_count == Len(ticker_positions)
    IN [ticker |-> ticker,
        total_premium |-> DecimalSum(Premiums(ticker_positions)),
        trade_count |-> trade_count,
        avg_annualized_roc |->
            IF trade_count # 0
            THEN Decimal_truediv(RocSum(ticker_positions),
                                 Decimal(trade_count))
            ELSE Decimal(0)]

\* Variant: the rollup sorted by total_premium ascending.
dashboard_by_ticker_Ascending(ps, u, start, end) ==
    LET rows == DateRangeQuery(ps, u, start, end)
        tickers == FirstTickers(rows)
        n == Len(tickers)
        results == SubSeq([k \in 1..n |-> TickerSummary(rows, tickers[k])],
                          1, n)
        before == [i \in 1..n |-> [j \in 1..n |->
                      Decimal_less(results[i].total_premium,
                                   results[j].total_premium)]]
        order == StableOrder(n, before)
    IN SubSeq([k \in 1..n |-> results[order[k]]], 1, n)

\* GET /dashboard/by-ticker
dashboard_by_ticker(ps, u, start, end) ==
    LET rows == DateRangeQuery(ps, u, start, end)
        tickers == FirstTickers(rows)
        n == Len(tickers)
        results == SubSeq([k \in 1..n |-> TickerSummary(rows, tickers[k])],
                          1, n)
        before == [i \in 1..n |-> [j \in 1..n |->
                      Decimal_less(results[j].total_premium,
                                   results[i].total_premium)]]
        order == StableOrder(n, before)
    IN SubSeq([k \in 1..n |-> results[order[k]]], 1, n)

CSV_COLUMNS ==
    <<"id", "user_id", "account_id", "ticker", "type", "status", "open_date",
      "expiration_date", "close_date", "strike_price", "contracts",
      "multiplier", "premium_per_share", "open_fees", "close_fees",
      "close_price_per_share", "outcome", "roll_group_id", "notes", "tags",
      "premium_total", "premium_net", "collateral", "roc_period", "dte",
      "annualized_roc">>

\* a cell of the export: the text of the value, of nothing for None and for
\* an empty list, the items joined for a list
CsvCell(resp, col) ==
    IF col \in {"close_date", "close_price_per_share", "outcome",
                "roll_group_id", "notes"}
    THEN (IF resp[col] = None THEN <<"str">> ELSE <<"str", resp[col][1]>>)
    ELSE IF col = "tags"
    THEN (IF resp[col] = None \/ resp[col][1] = <<>> THEN <<"str">>
          ELSE <<"join", ";", resp[col][1]>>)
    ELSE <<"str", resp[col]>>

\* GET /export/positions.csv: the header row, then one row per position
export_positions_csv(ps, u, start, end, status, ticker, today) ==
    LET Filter(p) ==
            /\ p.user_id = u
            /\ start # None => p.open_date >= start[1]
            /\ end # None => p.open_date <= end[1]
            /\ status # None => p.status = EnumValue(status[1])
            /\ ticker # None => p.ticker = Upper(ticker[1])
        resps == Responses(SelectSeq(ps, Filter), today)
        n == Len(resps)
    IN <<CSV_COLUMNS>> \o
       SubSeq([k \in 1..n |->
                  [c \in 1..Len(CSV_COLUMNS) |->
                      CsvCell(resps[k], CSV_COLUMNS[c])]], 1, n)

\* -------------------------------------------- requests as they are sent
CreateTerms(a) ==
    [account_id |-> a,
     ticker |-> <<"a">>,
     type |-> "COVERED_CALL",
     open_date |-> 10,
     expiration_date |-> 40,
     strike_price |-> DecimalLit(15000, -2),
     contracts |-> 2,
     premium_per_share |-> DecimalLit(350, -2)]

\* Bodies of POST /positions: the required terms only; every term, with a
\* status and a user_id the schema does not declare; an unknown type.
PositionCreateRaws ==
    UNION {{CreateTerms(a),
            [account_id |-> a,
             ticker |-> <<"m">>,
             type |-> "CASH_SECURED_PUT",
             open_date |-> 10,
             expiration_date |-> 40,
             strike_price |-> DecimalLit(15000, -2),
             contracts |-> 2,
             premium_per_share |-> DecimalLit(350, -2),
             multiplier |-> 10,
             open_fees |-> DecimalLit(130, -2),
             notes |-> Some("n"),
             tags |-> None,
             status |-> "CLOSED",
             user_id |-> "u2"],
            [CreateTerms(a) EXCEPT !.type = "STRADDLE"]} : a \in Refs(accounts)}

\* Bodies of PATCH /positions/{id}: nothing; three terms, one of them an
\* explicit null; keys the schema does not declare next to one it does; a
\* null for a required column.
TermsUpdateBodies ==
    {EmptyBody,
     [ticker |-> Some(<<"m">>), type |-> Some(CASH_SECURED_PUT), notes |-> None],
     [user_id |-> Some("u2"), id |-> Some(9), status |-> Some("CLOSED"),
      outcome |-> Some("EXPIRED"), close_date |-> Some(5),
      roll_group_id |-> Some(7), close_price_per_share |-> Some(Decimal(2))],
     [ticker |-> None]}

\* Bodies of POST /positions/{id}/close: with and without the optional
\* terms, and with the outcome only a roll may give.
PositionCloseRaws ==
    {[outcome |-> o, close_date |-> 20] : o \in {"EXPIRED", "ROLLED"}}
    \cup {[outcome |-> "ASSIGNED", close_date |-> 20,
           close_price_per_share |-> Some(Decimal(5)),
           close_fees |-> Some(DecimalLit(65, -2))]}

\* Bodies of POST /positions/{id}/roll, the close part carrying an outcome.
PositionRollRaws ==
    [close : {[close_date |-> 20, close_fees |-> Some(Decimal(1)),
               outcome |-> "EXPIRED"]},
     open : PositionCreateRaws]

CreatePositionRequest(u, raw, cap) ==
    /\ LET r == create_position_request(positions, accounts, u, raw) IN
       /\ r.result = "OK" => Len(positions) < cap
       /\ positions' = r.positions
       /\ last' = [op |-> "create", result |-> r.result]
    /\ UNCHANGED <<accounts, next_uuid, sessions, price_cache, clock, price_calls>>

ClosePositionRequest(u, pid, raw) ==
    /\ LET r == close_position_request(positions, u, pid, raw) IN
       /\ positions' = r.positions
       /\ last' = [op |-> "close", result |-> r.result]
    /\ UNCHANGED <<accounts, next_uuid, sessions, price_cache, clock, price_calls>>

RollPositionRequest(u, pid, raw, cap) ==
    /\ LET r == roll_position_request(positions, accounts, u, pid, raw,
                                      uuid4(next_uuid)) IN
       /\ r.result = "OK" => Len(positions) < cap
       /\ positions' = r.positions
       /\ next_uuid' = IF r.result = "OK" THEN uuid4(next_uuid) ELSE next_uuid
       /\ last' = [op |-> "roll", result |-> r.result]
    /\ UNCHANGED <<accounts, sessions, price_cache, clock, price_calls>>

\* One user with one account; requests carry the bodies as they are sent and
\* are validated before the handler runs.
NextTerms ==
    \/ \E body \in AccountCreateBodies : CreateAccount("u1", body, 1)
    \/ \E raw \in PositionCreateRaws :
           CreatePositionRequest("u1", raw, MaxTermsPositions)
    \/ \E pid \in Refs(positions), body \in TermsUpdateBodies :
           UpdatePosition("u1", pid, body)
    \/ \E pid \in Refs(positions), raw \in PositionCloseRaws :
           ClosePositionRequest("u1", pid, raw)
    \/ \E pid \in Refs(positions), raw \in PositionRollRaws :
           RollPositionRequest("u1", pid, raw, MaxTermsPositions)

SpecTerms == Init /\ [][NextTerms]_vars

\* Decimal("0.12345678901234567890123456789"): 29 significant digits
LongPremium ==
    [sign |-> 0,
     int |-> <<1, 2, 3, 4, 5, 6, 7, 8, 9, 0, 1, 2, 3, 4, 5, 6, 7, 8, 9, 0,
               1, 2, 3, 4, 5, 6, 7, 8, 9>>,
     exp |-> -29]

\* Bodies of POST /positions that differ in the numbers the metrics read.
MetricsCreateRaws ==
    {[account_id |-> 1,
      ticker |-> <<"a">>,
      type |-> "COVERED_CALL",
      open_date |-> 10,
      expiration_date |-> e,
      strike_price |-> s,
      contracts |-> c,
      premium_per_share |-> q,
      open_fees |-> f] :
        e \in {10, 40},
        s \in {DecimalLit(15000, -2), Decimal(0)},
        c \in {2, 0},
        q \in {DecimalLit(350, -2), LongPremium},
        f \in {Decimal(0), DecimalLit(130, -2)}}

MetricsUpdateBodies ==
    {[close_fees |-> Some(DecimalLit(130, -2))], [multiplier |-> Some(0)]}

\* Closes before the open date, on it and after it.
MetricsCloseRaws ==
    {[outcome |-> "EXPIRED", close_date |-> d] : d \in {5, 10, 20}}

\* One user with one account and one position at a time, of every kind the
\* metrics distinguish.
NextMetrics ==
    \/ \E body \in AccountCreateBodies : CreateAccount("u1", body, 1)
    \/ \E raw \in MetricsCreateRaws :
           CreatePositionRequest("u1", raw, MaxMetricsPositions)
    \/ \E pid \in Refs(positions), body \in MetricsUpdateBodies :
           UpdatePosition("u1", pid, body)
    \/ \E pid \in Refs(positions), raw \in MetricsCloseRaws :
           ClosePositionRequest("u1", pid, raw)

SpecMetrics == Init /\ [][NextMetrics]_vars

\* Two users, each with accounts and positions of their own: a user creates
\* positions on an account they own and updates, closes and rolls the
\* positions they own.
ReadsCreateBodies(u) ==
    [account_id : {a \in DOMAIN accounts : accounts[a].user_id = u},
     ticker : {<<"a">>},
     type : {COVERED_CALL},
     open_date : {10},
     expiration_date : {40},
     strike_price : {DecimalLit(15000, -2)},
     contracts : {1},
     premium_per_share : {DecimalLit(350, -2)},
     multiplier : {100},
     open_fees : {DecimalLit(130, -2)},
     notes : {None},
     tags : {None}]

ReadsUpdateBodies == {[ticker |-> Some(<<"m">>)]}

ReadsCloseBodies ==
    {[outcome |-> "EXPIRED", close_date |-> 20,
      close_price_per_share |-> None, close_fees |-> Some(Decimal(1))]}

ReadsRollBodies(u) ==
    [close : PositionRollCloseBodies, open : ReadsCreateBodies(u)]

NextReads ==
    \/ \E u \in Users, body \in AccountCreateBodies :
           CreateAccount(u, body, MaxAccounts)
    \/ \E u \in Users : \E body \in ReadsCreateBodies(u) :
           CreatePosition(u, body, MaxReadsPositions)
    \/ \E pid \in DOMAIN positions, body \in ReadsUpdateBodies :
           UpdatePosition(positions[pid].user_id, pid, body)
    \/ \E pid \in DOMAIN positions, body \in ReadsCloseBodies :
           ClosePosition(positions[pid].user_id, pid, body)
    \/ \E pid \in DOMAIN positions :
           \E body \in ReadsRollBodies(positions[pid].user_id) :
               RollPosition(positions[pid].user_id, pid, body, MaxReadsPositions)

SpecReads == Init /\ [][NextReads]_vars

\* One user whose positions differ in what the dashboard reads: opened before
\* and within the current month, expired, expiring within the week and later,
\* with and without collateral, on two tickers, two of them with the same
\* premium.
DashCreate(ticker, open_date, expiration_date, strike, premium, fees) ==
    [account_id |-> 1,
     ticker |-> ticker,
     type |-> COVERED_CALL,
     open_date |-> open_date,
     expiration_date |-> expiration_date,
     strike_price |-> strike,
     contracts |-> 1,
     premium_per_share |-> premium,
     multiplier |-> 100,
     open_fees |-> fees,
     notes |-> None,
     tags |-> None]

DashCreateBodies ==
    {DashCreate(<<"a">>, 10, 30, DecimalLit(15000, -2), DecimalLit(350, -2),
                DecimalLit(130, -2)),
     DashCreate(<<"m">>, 33, 42, DecimalLit(15000, -2), DecimalLit(350, -2),
                Decimal(0)),
     DashCreate(<<"a">>, 40, 70, Decimal(0), DecimalLit(100, -2), Decimal(0))}

\* A close after the open date of the first body, on that of the second and
\* before that of the third.
DashCloseBodies ==
    {[outcome |-> "EXPIRED", close_date |-> 33,
      close_price_per_share |-> None, close_fees |-> Some(Decimal(1))]}

NextDash ==
    \/ \E body \in AccountCreateBodies : CreateAccount("u1", body, 1)
    \/ \E body \in DashCreateBodies :
           CreatePosition("u1", body, MaxDashPositions)
    \/ \E pid \in DOMAIN positions, body \in DashCloseBodies :
           ClosePosition("u1", pid, body)

SpecDash == Init /\ [][NextDash]_vars

\* ---------------------------------------------------------- read requests
\* A GET request answered: last holds the request; the response is what the
\* handler's operator gives for the tables as they are. The handlers issue
\* queries only: no add, no attribute assignment, no commit.
ListAccounts(u) ==
    /\ last' = [op |-> "list_accounts", result |-> "OK",
                request |-> <<u>>]
    /\ UNCHANGED <<accounts, positions, next_uuid, sessions, price_cache, clock, price_calls>>

ListPositions(u, q, today) ==
    /\ last' = [op |-> "list_positions", result |-> "OK",
                request |-> <<u, q, today>>]
    /\ UNCHANGED <<accounts, positions, next_uuid, sessions, price_cache, clock, price_calls>>

\* Variant: a summary request that closes the positions past expiration.
DashboardSummary_AutoExpire(u, start, end, today) ==
    /\ last' = [op |-> "dashboard_summary", result |-> "OK",
                request |-> <<u, start, end, today>>]
    /\ positions' = [i \in DOMAIN positions |->
                        IF /\ positions[i].status = "OPEN"
                           /\ positions[i].expiration_date < today
                        THEN [positions[i] EXCEPT !.status = "CLOSED"]
                        ELSE positions[i]]
    /\ UNCHANGED <<accounts, next_uuid, sessions, price_cache, clock, price_calls>>

DashboardSummary(u, start, end, today) ==
    /\ last' = [op |-> "dashboard_summary", result |-> "OK",
                request |-> <<u, start, end, today>>]
    /\ UNCHANGED <<accounts, positions, next_uuid, sessions, price_cache, clock, price_calls>>

DashboardByTicker(u, start, end) ==
    /\ last' = [op |-> "dashboard_by_ticker", result |-> "OK",
                request |-> <<u, start, end>>]
    /\ UNCHANGED <<accounts, positions, next_uuid, sessions, price_cache, clock, price_calls>>

ExportPositionsCsv(u, filter, today) ==
    /\ last' = [op |-> "export_positions_csv", result |-> "OK",
                request |-> <<u, filter, today>>]
    /\ UNCHANGED <<accounts, positions, next_uuid, sessions, price_cache, clock, price_calls>>

ReadOps ==
    {"list_accounts", "list_positions", "dashboard_summary",
     "dashboard_by_ticker", "export_positions_csv"}

\* the days of the read requests, and their parameters
QueryDays == {34, 35}

QueryList ==
    [status |-> None, ticker |-> None, type |-> None, account_id |-> None,
     expiration_start |-> None, expiration_end |-> None,
     sort |-> "expiration_date", order |-> "asc"]

QueryFilter ==
    [start |-> None, end |-> None, status |-> None, ticker |-> None]

\* One user creating and closing positions, every read request being made
\* between any two of these.
NextQueries ==
    \/ \E body \in AccountCreateBodies : CreateAccount("u1", body, 1)
    \/ \E body \in DashCreateBodies :
           CreatePosition("u1", body, MaxQueryPositions)
    \/ \E pid \in DOMAIN positions, body \in DashCloseBodies :
           ClosePosition("u1", pid, body)
    \/ ListAccounts("u1")
    \/ \E today \in QueryDays : ListPositions("u1", QueryList, today)
    \/ \E today \in QueryDays : DashboardSummary("u1", None, None, today)
    \/ DashboardByTicker("u1", None, None)
    \/ \E today \in QueryDays : ExportPositionsCsv("u1", QueryFilter, today)

SpecQueries == Init /\ [][NextQueries]_vars

\* ------------------------------------------------------------- price proxy
\* Times are whole seconds; a close is a price in thousandths, a current_price
\* is in hundredths and a change_percent in hundredths of a percent.
MaxClock == 120        \* the clock stops advancing here
CACHE_TTL_SECONDS == 60

\* class TickerPrice: every field but ticker defaults to None
TickerPrice(ticker, current_price, change_percent, last_fetched) ==
    [ticker |-> ticker, current_price |-> current_price,
     change_percent |-> change_percent, last_fetched |-> last_fetched]

NullTickerPrice(ticker) == TickerPrice(ticker, None, None, None)

\* round(x, 2) of x = num / den, den > 0: to the nearest, a tie to the even one
RoundHalfEven(num, den) ==
    LET mag == IF num < 0 THEN 0 - num ELSE num
        q == mag \div den
        r == mag % den
        n == IF 2 * r > den \/ (2 * r = den /\ q % 2 = 1) THEN q + 1 ELSE q
    IN  IF num < 0 THEN 0 - n ELSE n

\* str.split(",")
RECURSIVE SplitComma(_)
SplitComma(s) ==
    IF s = <<>> THEN << <<>> >>
    ELSE LET rest == SplitComma(Tail(s)) IN
         IF Head(s) = "," THEN << <<>> >> \o rest
         ELSE << <<Head(s)>> \o Head(rest) >> \o Tail(rest)

\* str.strip()
RECURSIVE Strip(_)
Strip(s) ==
    IF s = <<>> THEN s
    ELSE IF Head(s) = " " THEN Strip(Tail(s))
    ELSE IF s[Len(s)] = " " THEN Strip(SubSeq(s, 1, Len(s) - 1))
    ELSE s

\* [t.strip().upper() for t in tickers.split(",") if t.strip()]
TickerList(tickers) ==
    LET parts == SplitComma(tickers)
        NotBlank(t) == Strip(t) # <<>>
        kept == SelectSeq(parts, NotBlank)
    IN  [i \in DOMAIN kept |-> Upper(Strip(kept[i]))]

\* The elements of a list.
ListItems(s) == {s[i] : i \in DOMAIN s}

\* Variant: one try around the whole loop, so that a ticker whose column is
\* missing nulls every ticker of the call.
fetch_prices_AllOrNothing(tickers, data, now) ==
    IF \/ data.raises
       \/ \E t \in {tickers[i] : i \in DOMAIN tickers} :
              \/ data.close[t][1] = "KeyError"
              \/ Len(data.close[t][2]) = 0
    THEN [t \in {tickers[i] : i \in DOMAIN tickers} |->
             [ticker |-> t, current_price |-> <<>>, change_percent |-> <<>>,
              last_fetched |-> <<>>]]
    ELSE [t \in {tickers[i] : i \in DOMAIN tickers} |->
             [ticker |-> t,
              current_price |-> <<data.close[t][2][Len(data.close[t][2])] \div 10>>,
              change_percent |-> <<>>, last_fetched |-> <<now>>]]

\* What yf.download does for one call: it raises, or it returns a frame whose
\* Close column of a ticker is missing (a KeyError) or holds the closes left
\* after dropna(), the oldest first.
\* _fetch_prices: one TickerPrice per ticker asked for, keyed by ticker.
fetch_prices(tickers, data, now) ==
    LET One(ticker) ==
            LET col == data.close[ticker] IN
            IF col[1] = "KeyError" THEN NullTickerPrice(ticker)
            ELSE LET close_values == col[2] IN
                 IF Len(close_values) = 0 THEN NullTickerPrice(ticker)
                 ELSE LET current_price == close_values[Len(close_values)]
                          prev_price ==
                              IF Len(close_values) >= 2
                              THEN close_values[Len(close_values) - 1] ELSE 0
                          change_percent ==
                              IF Len(close_values) >= 2 /\ prev_price # 0
                              THEN Some(RoundHalfEven(
                                       (current_price - prev_price) * 10000,
                                       prev_price))
                              ELSE None
                      IN  TickerPrice(ticker,
                                      Some(RoundHalfEven(current_price, 10)),
                                      change_percent, Some(now))
    IN  IF data.raises
        THEN [t \in ListItems(tickers) |-> NullTickerPrice(t)]
        ELSE [t \in ListItems(tickers) |-> One(t)]

\* The cache test of get_prices: an entry exists and is younger than the TTL.
CacheFresh_Inclusive(cache, ticker, now) ==
    /\ ticker \in DOMAIN cache
    /\ now - cache[ticker][2] <= CACHE_TTL_SECONDS

\* Variant: an entry without a price is never served from the cache.
CacheFresh_PricedOnly(cache, ticker, now) ==
    /\ ticker \in DOMAIN cache
    /\ cache[ticker][1].current_price # None
    /\ now - cache[ticker][2] < CACHE_TTL_SECONDS

CacheFresh(cache, ticker, now) ==
    /\ ticker \in DOMAIN cache
    /\ now - cache[ticker][2] < CACHE_TTL_SECONDS

\* GET /prices?tickers=... at time now, with the upstream answering data.
\* fetch_calls lists the arguments of the calls of _fetch_prices, fetched is
\* what the call returned.
get_prices(cache, tickers, now, data) ==
    LET ticker_list == TickerList(tickers)
        Hit(t) == CacheFresh(cache, t, now)
        Miss(t) == ~CacheFresh(cache, t, now)
        served == SelectSeq(ticker_list, Hit)
        tickers_to_fetch == SelectSeq(ticker_list, Miss)
        fetched == IF tickers_to_fetch # <<>>
                   THEN fetch_prices(tickers_to_fetch, data, now)
                   ELSE [t \in {} |-> NullTickerPrice(t)]
        price(t) == IF t \in DOMAIN fetched THEN fetched[t]
                    ELSE NullTickerPrice(t)
    IN  IF ticker_list = <<>>
        THEN [response |-> [prices |-> <<>>], cache |-> cache,
              fetch_calls |-> <<>>, fetched |-> [t \in {} |-> NullTickerPrice(t)]]
        ELSE [response |->
                  [prices |-> [i \in DOMAIN served |-> cache[served[i]][1]]
                              \o [i \in DOMAIN tickers_to_fetch |->
                                      price(tickers_to_fetch[i])]],
              cache |-> [t \in DOMAIN cache \cup ListItems(tickers_to_fetch) |->
                            IF t \in ListItems(tickers_to_fetch)
                            THEN <<price(t), now>> ELSE cache[t]],
              fetch_calls |-> IF tickers_to_fetch # <<>>
                              THEN <<tickers_to_fetch>> ELSE <<>>,
              fetched |-> fetched]

\* Time passes.
Tick(d) ==
    /\ clock + d <= MaxClock
    /\ clock' = clock + d
    /\ UNCHANGED <<accounts, positions, next_uuid, last, sessions, price_cache,
                   price_calls>>

GetPrices(u, tickers, data) ==
    LET r == get_prices(price_cache, tickers, clock, data) IN
    /\ price_cache' = r.cache
    /\ last' = [op |-> "get_prices", result |-> "OK", request |-> tickers,
                response |-> r.response, fetch_calls |-> r.fetch_calls,
                fetched |-> r.fetched, upstream |-> data]
    /\ UNCHANGED <<accounts, positions, next_uuid, sessions, clock, price_calls>>

\* The ticker symbols the requests ask for, as the handler normalises them.
PriceTickers == {<<"A">>, <<"M">>}

\* The tickers query strings: one symbol, two, a repeated one, lower case and
\* padded ones, and one with no symbol at all.
PriceQueries ==
    { <<"A">>, <<"m">>, <<"a", ",", " ", "M">>, <<"M", ",", "A">>,
      <<"A", ",", "a">>, <<",", " ">> }

\* The answers of the upstream: an error of the whole download, and frames
\* with two closes, one close, no close or no column for a ticker.
UpstreamFrames ==
    { [raises |-> TRUE,
       close |-> [t \in PriceTickers |-> <<"KeyError">>]],
      [raises |-> FALSE,
       close |-> [t \in PriceTickers |->
                     IF t = <<"A">> THEN <<"Close", <<174000, 175504>>>>
                     ELSE <<"KeyError">>]],
      [raises |-> FALSE,
       close |-> [t \in PriceTickers |->
                     IF t = <<"A">> THEN <<"Close", <<>>>>
                     ELSE <<"Close", <<42001>>>>]] }

\* Seconds between two events: just under the TTL, and the TTL.
ClockSteps == {59, 60}

NextPrices ==
    \/ \E d \in ClockSteps : Tick(d)
    \/ \E u \in Users : \E tickers \in PriceQueries : \E data \in UpstreamFrames :
           GetPrices(u, tickers, data)

SpecPrices == Init /\ [][NextPrices]_vars

\* ------------------------------------------- concurrent price requests
\* get_prices is a sync handler: the server runs each request on a thread of
\* its pool, and the threads share _price_cache. One dict read or one dict
\* store is atomic; between any two of them, and while _fetch_prices waits for
\* the upstream, another request may run. A request begun is a record of its
\* locals: pc is where it stands, i the index of its current loop.
MaxPriceCalls == 2     \* get_prices requests begun under SpecPriceRace

\* ticker_list parsed and now read; an empty list returns at once
GetPricesBegin(u, tickers, cap) ==
    /\ Len(price_calls) < cap
    /\ price_calls' = Append(price_calls,
           [request |-> tickers,
            ticker_list |-> TickerList(tickers),
            now |-> clock,
            pc |-> IF TickerList(tickers) = <<>> THEN "return" ELSE "check",
            i |-> 1,
            results |-> <<>>,
            tickers_to_fetch |-> <<>>,
            fetched |-> [t \in {} |-> NullTickerPrice(t)]])
    /\ UNCHANGED <<accounts, positions, next_uuid, last, sessions, price_cache,
                   clock>>

\* one turn of the loop that checks the cache
GetPricesCheck(c) ==
    /\ c \in DOMAIN price_calls
    /\ price_calls[c].pc = "check"
    /\ LET call == price_calls[c]
           ticker == call.ticker_list[call.i]
           hit == CacheFresh(price_cache, ticker, call.now)
           results == IF hit THEN Append(call.results, price_cache[ticker][1])
                      ELSE call.results
           tickers_to_fetch == IF hit THEN call.tickers_to_fetch
                               ELSE Append(call.tickers_to_fetch, ticker)
           pc == IF call.i < Len(call.ticker_list) THEN "check"
                 ELSE IF tickers_to_fetch # <<>> THEN "fetch" ELSE "return"
       IN  price_calls' = [price_calls EXCEPT ![c] =
               [call EXCEPT !.results = results,
                            !.tickers_to_fetch = tickers_to_fetch,
                            !.i = IF pc = "check" THEN call.i + 1 ELSE 1,
                            !.pc = pc]]
    /\ UNCHANGED <<accounts, positions, next_uuid, last, sessions, price_cache,
                   clock>>

\* the call of _fetch_prices returns, the upstream having answered data
GetPricesFetch(c, data) ==
    /\ c \in DOMAIN price_calls
    /\ price_calls[c].pc = "fetch"
    /\ price_calls' = [price_calls EXCEPT ![c] =
           [price_calls[c] EXCEPT
               !.fetched = fetch_prices(price_calls[c].tickers_to_fetch, data,
                                        clock),
               !.pc = "write"]]
    /\ UNCHANGED <<accounts, positions, next_uuid, last, sessions, price_cache,
                   clock>>

\* Variant: a store that replaces the price of an entry and keeps its stamp.
GetPricesWrite_KeepStamp(c) ==
    /\ c \in DOMAIN price_calls
    /\ price_calls[c].pc = "write"
    /\ LET call == price_calls[c]
           ticker == call.tickers_to_fetch[call.i]
           price == call.fetched[ticker]
       IN  /\ price_cache' =
                  [t \in DOMAIN price_cache \cup {ticker} |->
                      IF t # ticker THEN price_cache[t]
                      ELSE IF ticker \in DOMAIN price_cache
                           THEN <<price, price_cache[ticker][2]>>
                           ELSE <<price, call.now>>]
           /\ price_calls' = [price_calls EXCEPT ![c] =
                  [call EXCEPT
                      !.results = Append(call.results, price),
                      !.i = call.i + 1,
                      !.pc = IF call.i < Len(call.tickers_to_fetch)
                             THEN "write" ELSE "return"]]
    /\ UNCHANGED <<accounts, positions, next_uuid, last, sessions, clock>>

\* Variant: an entry stamped with the time of the fetch, not of the request.
GetPricesWrite_StampFetchTime(c) ==
    /\ c \in DOMAIN price_calls
    /\ price_calls[c].pc = "write"
    /\ LET call == price_calls[c]
           ticker == call.tickers_to_fetch[call.i]
           price == call.fetched[ticker]
           stamp == IF price.last_fetched # None THEN price.last_fetched[1]
                    ELSE call.now
       IN  /\ price_cache' =
                  [t \in DOMAIN price_cache \cup {ticker} |->
                      IF t = ticker THEN <<price, stamp>> ELSE price_cache[t]]
           /\ price_calls' = [price_calls EXCEPT ![c] =
                  [call EXCEPT
                      !.results = Append(call.results, price),
                      !.i = call.i + 1,
                      !.pc = IF call.i < Len(call.tickers_to_fetch)
                             THEN "write" ELSE "return"]]
    /\ UNCHANGED <<accounts, positions, next_uuid, last, sessions, clock>>

\* one turn of the loop that stores what was fetched
GetPricesWrite(c) ==
    /\ c \in DOMAIN price_calls
    /\ price_calls[c].pc = "write"
    /\ LET call == price_calls[c]
           ticker == call.tickers_to_fetch[call.i]
           price == IF ticker \in DOMAIN call.fetched THEN call.fetched[ticker]
                    ELSE NullTickerPrice(ticker)
       IN  /\ price_cache' =
                  [t \in DOMAIN price_cache \cup {ticker} |->
                      IF t = ticker THEN <<price, call.now>>
                      ELSE price_cache[t]]
           /\ price_calls' = [price_calls EXCEPT ![c] =
                  [call EXCEPT
                      !.results = Append(call.results, price),
                      !.i = call.i + 1,
                      !.pc = IF call.i < Len(call.tickers_to_fetch)
                             THEN "write" ELSE "return"]]
    /\ UNCHANGED <<accounts, positions, next_uuid, last, sessions, clock>>

\* return PriceResponse(prices=results)
GetPricesReturn(c) ==
    /\ c \in DOMAIN price_calls
    /\ price_calls[c].pc = "return"
    /\ price_calls' = [price_calls EXCEPT ![c] =
           [price_calls[c] EXCEPT !.pc = "done"]]
    /\ last' = [op |-> "get_prices", result |-> "OK",
                request |-> price_calls[c].request,
                response |-> [prices |-> price_calls[c].results]]
    /\ UNCHANGED <<accounts, positions, next_uuid, sessions, price_cache, clock>>

\* The tickers query strings of the concurrent requests.
RaceQueries == { <<"A">>, <<"a", ",", " ", "M">>, <<",", " ">> }

NextPriceRace ==
    \/ \E d \in ClockSteps : Tick(d)
    \/ \E u \in Users : \E tickers \in RaceQueries :
           GetPricesBegin(u, tickers, MaxPriceCalls)
    \/ \E c \in 1..MaxPriceCalls : GetPricesCheck(c)
    \/ \E c \in 1..MaxPriceCalls : \E data \in UpstreamFrames :
           GetPricesFetch(c, data)
    \/ \E c \in 1..MaxPriceCalls : GetPricesWrite(c)
    \/ \E c \in 1..MaxPriceCalls : GetPricesReturn(c)

SpecPriceRace == Init /\ [][NextPriceRace]_vars

\* ------------------------------------------------------------------ claims
\* Ownership as the claims state it, read off the tables directly.
OwnsPosition(ps, pid, u) ==
    \E i \in DOMAIN ps : ps[i].id = pid /\ ps[i].user_id = u

OwnsAccount(as, aid, u) ==
    \E i \in DOMAIN as : as[i].id = aid /\ as[i].user_id = u

\* C4: a Close or a Roll of a position that is already CLOSED, sent by its
\* owner, is refused with the already-closed error whatever its body, and
\* leaves the positions table as it was.
C4_ClosedRejectsCloseAndRoll ==
    \A u \in Users : \A i \in DOMAIN positions :
        (positions[i].user_id = u /\ positions[i].status = "CLOSED") =>
            /\ \A body \in PositionCloseBodies :
                   close_position(positions, u, positions[i].id, body)
                       = [result |-> "AlreadyClosed", positions |-> positions]
            /\ \A body \in PositionRollBodies :
                   roll_position(positions, accounts, u, positions[i].id, body,
                                 uuid4(next_uuid))
                       = [result |-> "AlreadyClosed", positions |-> positions]

C4_Witness ==
    /\ last = [op |-> "close", result |-> "AlreadyClosed"]
    /\ \E i \in DOMAIN positions : positions[i].outcome = Some("ROLLED")

\* C1: a successful Roll adds exactly one position; the roll group id it
\* generated was carried by no position before, and is carried afterwards
\* by exactly two: the rolled one, which was OPEN and is now CLOSED with
\* outcome ROLLED, and the added one, which is OPEN and has the same owner.
C1_RollStep ==
    (last'.op = "roll" /\ last'.result = "OK") =>
        LET n == Len(positions')
            g == positions'[n].roll_group_id
            carriers == {i \in DOMAIN positions' : positions'[i].roll_group_id = g}
        IN /\ n = Len(positions) + 1
           /\ g # None
           /\ \A i \in DOMAIN positions : positions[i].roll_group_id # g
           /\ Cardinality(carriers) = 2
           /\ \E i \in DOMAIN positions :
                  /\ carriers = {i, n}
                  /\ positions[i].status = "OPEN"
                  /\ positions'[i].id = positions[i].id
                  /\ positions'[i].status = "CLOSED"
                  /\ positions'[i].outcome = Some("ROLLED")
                  /\ positions'[n].user_id = positions[i].user_id
           /\ positions'[n].status = "OPEN"

C1_RollYieldsPair == [][C1_RollStep]_vars

C1_Witness ==
    /\ last = [op |-> "roll", result |-> "OK"]
    /\ Len(positions) = 2
    /\ positions[1].outcome = Some("ROLLED")

\* C2: every position with outcome ROLLED has a roll group id, and exactly
\* one other position carries the same roll group id.
C2_RolledHasOnePartner ==
    \A i \in DOMAIN positions :
        positions[i].outcome = Some("ROLLED") =>
            /\ positions[i].roll_group_id # None
            /\ Cardinality({j \in DOMAIN positions \ {i} :
                   positions[j].roll_group_id = positions[i].roll_group_id}) = 1

\* C3: an OPEN position has no close_date, outcome or
\* close_price_per_share; a CLOSED position has a close_date and an outcome.
C3_StatusFieldsConsistent ==
    \A i \in DOMAIN positions :
        /\ positions[i].status = "OPEN" =>
               /\ positions[i].close_date = None
               /\ positions[i].outcome = None
               /\ positions[i].close_price_per_share = None
        /\ positions[i].status = "CLOSED" =>
               /\ positions[i].close_date # None
               /\ positions[i].outcome # None

\* C5: a position that is CLOSED is still there, and still CLOSED, after
\* every step.
C5_ClosedStep ==
    \A i \in DOMAIN positions :
        positions[i].status = "CLOSED" =>
            /\ i \in DOMAIN positions'
            /\ positions'[i].id = positions[i].id
            /\ positions'[i].status = "CLOSED"

C5_ClosedStaysClosed == [][C5_ClosedStep]_vars

C5_Witness ==
    /\ last = [op |-> "update", result |-> "OK"]
    /\ Len(positions) > 0
    /\ \A i \in DOMAIN positions :
           /\ positions[i].status = "CLOSED"
           /\ positions[i].close_price_per_share = Some(Decimal(2))

\* C6: in every step the positions table takes, a position becomes
\* CLOSED/ROLLED under a roll group id exactly when an OPEN position with
\* that roll group id is added in the same step; a roll that is staged and
\* not committed shows in no row; a roll whose commit failed changed no row.
C6_RollStepAtomic ==
    LET n == Len(positions')
        added == Len(positions') > Len(positions)
        rolled(i) ==
            /\ positions'[i].outcome = Some("ROLLED")
            /\ positions'[i].status = "CLOSED"
            /\ \/ positions[i].outcome # Some("ROLLED")
               \/ positions[i].roll_group_id # positions'[i].roll_group_id
    IN /\ \A i \in DOMAIN positions :
              rolled(i) =>
                  /\ n = Len(positions) + 1
                  /\ positions'[n].roll_group_id = positions'[i].roll_group_id
                  /\ positions'[n].status = "OPEN"
       /\ (added /\ positions'[n].roll_group_id # None) =>
              \E i \in DOMAIN positions :
                  /\ rolled(i)
                  /\ positions'[i].roll_group_id = positions'[n].roll_group_id
       /\ \A st \in sessions' : \A i \in DOMAIN positions' :
              positions'[i].roll_group_id # Some(st.roll_group_id)
       /\ last'.result = "CommitFailed" => positions' = positions

C6_RollAllOrNothing == [][C6_RollStepAtomic]_vars

C6_Witness ==
    /\ sessions # {}
    /\ last = [op |-> "roll", result |-> "OK"]
    /\ \E i \in DOMAIN positions : positions[i].outcome = Some("ROLLED")

\* C7: every position's user_id is the user_id of the account its
\* account_id references.
C7_PositionUserMatchesAccount ==
    \A i \in DOMAIN positions :
        \E j \in DOMAIN accounts :
            /\ accounts[j].id = positions[i].account_id
            /\ accounts[j].user_id = positions[i].user_id

C7_Witness ==
    /\ last = [op |-> "update", result |-> "OK"]
    /\ Len(accounts) = 2
    /\ accounts[1].user_id = accounts[2].user_id
    /\ \E i \in DOMAIN positions : positions[i].account_id = 2
    /\ \E i \in DOMAIN positions : positions[i].account_id = 1

\* C8: a Create naming an account the caller does not own (it does not
\* exist, or is another user's), and an Update of a position of the caller
\* naming such an account, are refused with the account-not-owned error
\* whatever else the body carries, and leave the positions table as it was.
C8_UnownedAccountRejected ==
    \A u \in Users :
        /\ \A body \in PositionCreateBodies :
               ~OwnsAccount(accounts, body.account_id, u) =>
                   create_position(positions, accounts, u, body)
                       = [result |-> "AccountNotOwned", positions |-> positions]
        /\ \A i \in DOMAIN positions : \A body \in PositionUpdateBodies :
               (/\ positions[i].user_id = u
                /\ "account_id" \in DOMAIN body
                /\ body["account_id"] # None
                /\ ~OwnsAccount(accounts, body["account_id"][1], u)) =>
                   update_position(positions, accounts, u, positions[i].id, body)
                       = [result |-> "AccountNotOwned", positions |-> positions]

C8_Witness ==
    /\ last = [op |-> "update", result |-> "AccountNotOwned"]
    /\ Len(accounts) = 2
    /\ accounts[1].user_id # accounts[2].user_id

\* C9: a Roll of an OPEN position of the caller whose open.account_id is not
\* an account of the caller is refused with the account-not-owned error and
\* leaves the positions table as it was.
C9_RollUnownedAccountRejected ==
    \A u \in Users : \A i \in DOMAIN positions : \A body \in PositionRollBodies :
        (/\ positions[i].user_id = u
         /\ positions[i].status = "OPEN"
         /\ ~OwnsAccount(accounts, body.open.account_id, u)) =>
            roll_position(positions, accounts, u, positions[i].id, body,
                          uuid4(next_uuid))
                = [result |-> "AccountNotOwned", positions |-> positions]

C9_Witness ==
    /\ last = [op |-> "roll", result |-> "AccountNotOwned"]
    /\ Len(accounts) = 2
    /\ accounts[1].user_id # accounts[2].user_id
    /\ \A i \in DOMAIN positions : positions[i].status = "OPEN"

\* C10: an Update, Close or Roll naming a position id that no row has, or
\* that a row of another user has, is refused with the one not-found error
\* and leaves the positions table as it was.
C10_UnknownPositionRejected ==
    \A u \in Users : \A pid \in Refs(positions) :
        ~OwnsPosition(positions, pid, u) =>
            LET refused == [result |-> "PositionNotFound", positions |-> positions]
            IN /\ \A body \in PositionUpdateBodies :
                      update_position(positions, accounts, u, pid, body) = refused
               /\ \A body \in PositionCloseBodies :
                      close_position(positions, u, pid, body) = refused
               /\ \A body \in PositionRollBodies :
                      roll_position(positions, accounts, u, pid, body,
                                    uuid4(next_uuid)) = refused

C10_Witness ==
    /\ last = [op |-> "close", result |-> "PositionNotFound"]
    /\ Len(positions) = MaxPositions
    /\ positions[1].user_id # positions[2].user_id

\* the rows of a table that a user owns, in table order
OwnRows(table, u) ==
    LET Own(r) == r.user_id = u IN SelectSeq(table, Own)

\* every row of the table that u does not own is in table2, as it was
OthersKept(table, table2, u) ==
    \A j \in DOMAIN table :
        table[j].user_id # u => j \in DOMAIN table2 /\ table2[j] = table[j]

ReadDays == {35}
\* the start and end of a date range, each optional
ReadRanges == {<<None, None>>, <<Some(10), Some(10)>>, <<Some(11), None>>}

ExportFilters ==
    {[start |-> None, end |-> None, status |-> None, ticker |-> None],
     [start |-> Some(10), end |-> Some(10), status |-> Some(OPEN),
      ticker |-> Some(<<"a">>)]}

ListQueries ==
    {[status |-> None, ticker |-> None, type |-> None, account_id |-> None,
      expiration_start |-> None, expiration_end |-> None,
      sort |-> "open_date", order |-> "desc"],
     [status |-> Some(OPEN), ticker |-> Some(<<"a">>),
      type |-> Some(COVERED_CALL), account_id |-> None,
      expiration_start |-> Some(40), expiration_end |-> None,
      sort |-> "ticker", order |-> "ASC"]}

\* C11: no request of a user changes a position or an account of another
\* user, and what the user's list, dashboard summary, by-ticker summary and
\* export return holds that user's records only and is what it would be if
\* the other users held no positions at all.
C11_PerUserIsolation ==
    \A u \in Users :
        LET own == OwnRows(positions, u) IN
        /\ \A body \in AccountCreateBodies :
               OthersKept(accounts, create_account(accounts, u, body).accounts, u)
        /\ \A aid \in Refs(accounts), body \in AccountUpdateBodies :
               OthersKept(accounts,
                          update_account(accounts, u, aid, body).accounts, u)
        /\ \A body \in PositionCreateBodies :
               OthersKept(positions,
                          create_position(positions, accounts, u, body).positions,
                          u)
        /\ \A pid \in Refs(positions) :
               /\ \A body \in PositionUpdateBodies :
                      OthersKept(positions,
                                 update_position(positions, accounts, u, pid,
                                                 body).positions, u)
               /\ \A body \in PositionCloseBodies :
                      OthersKept(positions,
                                 close_position(positions, u, pid, body).positions,
                                 u)
               /\ \A body \in PositionRollBodies :
                      OthersKept(positions,
                                 roll_position(positions, accounts, u, pid, body,
                                               uuid4(next_uuid)).positions, u)
        /\ \A today \in ReadDays :
               /\ \A q \in ListQueries :
                      LET r == list_positions(positions, u, q, today)
                      IN /\ \A k \in DOMAIN r : r[k].user_id = u
                         /\ r = list_positions(own, u, q, today)
               /\ \A range \in ReadRanges :
                      LET r == dashboard_summary(positions, u, range[1],
                                                 range[2], today)
                      IN /\ \A k \in DOMAIN r.upcoming_expirations :
                                r.upcoming_expirations[k].user_id = u
                         /\ r = dashboard_summary(own, u, range[1], range[2],
                                                  today)
               /\ \A filter \in ExportFilters :
                      LET r == export_positions_csv(positions, u, filter.start,
                                    filter.end, filter.status, filter.ticker,
                                    today)
                      IN /\ \A k \in 2..Len(r) : r[k][2] = <<"str", u>>
                         /\ r = export_positions_csv(own, u, filter.start,
                                    filter.end, filter.status, filter.ticker,
                                    today)
        /\ \A range \in ReadRanges :
               dashboard_by_ticker(positions, u, range[1], range[2])
                   = dashboard_by_ticker(own, u, range[1], range[2])

\* both users hold a position, one of them closed by its owner's request
C11_Witness ==
    \E i, j \in DOMAIN positions :
        /\ positions[i].user_id = "u1"
        /\ positions[j].user_id = "u2"
        /\ positions[i].status = "CLOSED"
        /\ last = [op |-> "close", result |-> "OK"]

\* C12: a Close of an OPEN position by its owner succeeds and changes that
\* one row only: status becomes CLOSED, outcome and close_date the supplied
\* ones, close_price_per_share and close_fees the supplied value when one is
\* supplied and the value they had otherwise; every other field and every
\* other row is as before.
C12_CloseSetsOnlyCloseFields ==
    \A i \in DOMAIN positions : \A raw \in PositionCloseRaws :
        (positions[i].status = "OPEN" /\ raw.outcome \in CloseOutcomes) =>
            LET r == close_position_request(positions, positions[i].user_id,
                                            positions[i].id, raw)
                old == positions[i]
                new == r.positions[i]
                supplied(f) == f \in DOMAIN raw /\ raw[f] # None
            IN /\ r.result = "OK"
               /\ DOMAIN r.positions = DOMAIN positions
               /\ \A j \in DOMAIN positions \ {i} : r.positions[j] = positions[j]
               /\ new.status = "CLOSED"
               /\ new.outcome = Some(raw.outcome)
               /\ new.close_date = Some(raw.close_date)
               /\ new.close_price_per_share =
                      (IF supplied("close_price_per_share")
                       THEN raw.close_price_per_share
                       ELSE old.close_price_per_share)
               /\ new.close_fees =
                      (IF supplied("close_fees")
                       THEN raw.close_fees[1] ELSE old.close_fees)
               /\ \A f \in DOMAIN old \ {"status", "outcome", "close_date",
                                         "close_price_per_share", "close_fees"} :
                      new[f] = old[f]

\* a position closed with no close price and no close fees supplied, which
\* kept the close price an earlier update gave it and the default fees
C12_Witness ==
    /\ last = [op |-> "close", result |-> "OK"]
    /\ \E i \in DOMAIN positions :
           /\ positions[i].status = "CLOSED"
           /\ positions[i].outcome = Some("EXPIRED")
           /\ positions[i].roll_group_id = None
           /\ positions[i].close_price_per_share = Some(Decimal(2))
           /\ positions[i].close_fees = Decimal(0)

C14_UpdateKeepsLifecycleFields ==
    \A u \in Users : \A pid \in Refs(positions) : \A body \in TermsUpdateBodies :
        LET r == update_position(positions, accounts, u, pid, body)
        IN /\ DOMAIN r.positions = DOMAIN positions
           /\ \A j \in DOMAIN positions :
                  \A f \in {"status", "outcome", "close_date", "roll_group_id",
                            "user_id", "id"} :
                      r.positions[j][f] = positions[j][f]

\* an OPEN row of u1 on which the update carrying user_id, id, status,
\* outcome, close_date and roll_group_id was applied: only the close price
\* it also carried was taken
C14_Witness ==
    /\ last = [op |-> "update", result |-> "OK"]
    /\ \E i \in DOMAIN positions :
           /\ positions[i].close_price_per_share = Some(Decimal(2))
           /\ positions[i].status = "OPEN"
           /\ positions[i].user_id = "u1"
           /\ positions[i].id = i
           /\ positions[i].outcome = None
           /\ positions[i].close_date = None
           /\ positions[i].roll_group_id = None

\* C15: a Create whose body is valid and names an account of the caller
\* succeeds and adds exactly one row, the rows already there staying as they
\* were. The new row has a fresh id, status OPEN whatever the body says, the
\* caller as user_id, the ticker uppercased, no close_date, outcome,
\* close_price_per_share or roll_group_id, and the terms of the body, with
\* multiplier 100, open_fees 0 and no notes or tags where the body has none.
C15_CreateAddsOneOpenPosition ==
    \A u \in Users : \A raw \in PositionCreateRaws :
        (raw.type \in PositionTypeValues /\ OwnsAccount(accounts, raw.account_id, u)) =>
            LET r == create_position_request(positions, accounts, u, raw)
                n == Len(positions) + 1
                new == r.positions[n]
                given(f, default) == IF f \in DOMAIN raw THEN raw[f] ELSE default
            IN /\ r.result = "OK"
               /\ Len(r.positions) = n
               /\ \A j \in DOMAIN positions : r.positions[j] = positions[j]
               /\ \A j \in DOMAIN positions : positions[j].id # new.id
               /\ new.status = "OPEN"
               /\ new.user_id = u
               /\ new.ticker = Upper(raw.ticker)
               /\ new.close_date = None
               /\ new.outcome = None
               /\ new.close_price_per_share = None
               /\ new.roll_group_id = None
               /\ new.account_id = raw.account_id
               /\ new.type = raw.type
               /\ new.open_date = raw.open_date
               /\ new.expiration_date = raw.expiration_date
               /\ new.strike_price = raw.strike_price
               /\ new.contracts = raw.contracts
               /\ new.premium_per_share = raw.premium_per_share
               /\ new.multiplier = given("multiplier", 100)
               /\ new.open_fees = given("open_fees", Decimal(0))
               /\ new.notes = given("notes", None)
               /\ new.tags = given("tags", None)

\* both kinds of body were created: the one with the required terms only,
\* and the one that carried status CLOSED and another user's id
C15_Witness ==
    /\ last = [op |-> "create", result |-> "OK"]
    /\ Len(positions) = 2
    /\ positions[1].multiplier = 100
    /\ positions[1].ticker = <<"A">>
    /\ positions[2].multiplier = 10
    /\ positions[2].ticker = <<"M">>
    /\ positions[2].status = "OPEN"
    /\ positions[2].user_id = "u1"

\* C16: in every reachable state every stored position has contracts > 0,
\* multiplier > 0, strike_price > 0, premium_per_share >= 0, open_fees >= 0
\* and close_fees >= 0 (no Create or Update carrying a value outside these
\* bounds having been applied).
C16_NumericBoundsHold ==
    LET
        positive(d) == ~Decimal_is_zero(d) /\ d.sign = 0
        nonnegative(d) == ~Decimal_is_negative(d)
    IN \A i \in DOMAIN positions :
           /\ positions[i].contracts > 0
           /\ positions[i].multiplier > 0
           /\ positive(positions[i].strike_price)
           /\ nonnegative(positions[i].premium_per_share)
           /\ nonnegative(positions[i].open_fees)
           /\ nonnegative(positions[i].close_fees)

\* C17: Close and Roll are atomic with respect to other requests on the same
\* position: every Close or Roll that answers OK finds its position OPEN at
\* the step that applies it and leaves it CLOSED, so that of two requests
\* racing for one OPEN position only the first to be applied succeeds, and a
\* Roll that answers OK adds the one leg that shares the roll group id it
\* gave that position.
C17_WinnerStep ==
    /\ (last'.op = "close" /\ last'.result = "OK") =>
           \E i \in DOMAIN positions :
               positions[i].status = "OPEN" /\ positions'[i].status = "CLOSED"
    /\ (last'.op = "roll" /\ last'.result = "OK") =>
           /\ Len(positions') = Len(positions) + 1
           /\ \E i \in DOMAIN positions :
                  /\ positions[i].status = "OPEN"
                  /\ positions'[i].status = "CLOSED"
                  /\ positions'[i].roll_group_id =
                         positions'[Len(positions')].roll_group_id

C17_CloseAndRollSerialized == [][C17_WinnerStep]_vars

\* C18: a position gets outcome ROLLED only in a step that answers a Roll
\* with OK, and keeps it from then on; a Roll that answers OK leaves the
\* position it found OPEN closed with outcome ROLLED although its body
\* carried another outcome; a Close that answers OK leaves the position with
\* one of EXPIRED, ASSIGNED, CLOSED_EARLY.
C18_RolledStep ==
    LET rolled(ps, i) == i \in DOMAIN ps /\ ps[i].outcome = Some("ROLLED")
    IN /\ \A i \in DOMAIN positions' :
              (rolled(positions', i) /\ ~rolled(positions, i)) =>
                  last' = [op |-> "roll", result |-> "OK"]
       /\ \A i \in DOMAIN positions :
              rolled(positions, i) => rolled(positions', i)
       /\ last' = [op |-> "roll", result |-> "OK"] =>
              \E i \in DOMAIN positions :
                  /\ positions[i].status = "OPEN"
                  /\ positions'[i].status = "CLOSED"
                  /\ rolled(positions', i)
       /\ last' = [op |-> "close", result |-> "OK"] =>
              \E i \in DOMAIN positions :
                  /\ positions[i].status = "OPEN"
                  /\ positions'[i].status = "CLOSED"
                  /\ positions'[i].outcome \in
                         {Some("EXPIRED"), Some("ASSIGNED"), Some("CLOSED_EARLY")}

C18_RolledOnlyByRoll == [][C18_RolledStep]_vars

\* a Close asking for outcome ROLLED was refused on the OPEN leg of a roll
C18_Witness ==
    /\ last = [op |-> "close", result |-> "ValidationError"]
    /\ Len(positions) = 2
    /\ positions[1].outcome = Some("ROLLED")
    /\ positions[2].status = "OPEN"

\* C19: for every stored position premium_total is exactly
\* premium_per_share x contracts x multiplier and premium_net is exactly
\* premium_total - open_fees - close_fees, no digit of either being rounded
\* away.
C19_PremiumExact ==
    \A i \in DOMAIN positions :
        LET p == positions[i] IN
        /\ Decimal_eq(premium_total(p),
                      Decimal_product(Decimal_product(p.premium_per_share,
                                                      Decimal(p.contracts)),
                                      Decimal(p.multiplier)))
        /\ Decimal_eq(premium_net(p),
                      Decimal_sum(Decimal_sum(premium_total(p),
                                              Decimal_neg(p.open_fees)),
                                  Decimal_neg(p.close_fees)))

\* |x| <= |y| for two Decimals
AbsLeq(x, y) ==
    LET e == IF x.exp < y.exp THEN x.exp ELSE y.exp
    IN ~NatLess(NatShift(y.int, y.exp - e), NatShift(x.int, x.exp - e))

\* q is the quotient n / d to the precision of the context: q x d is n, or q
\* has all the digits of the precision and q x d differs from n by at most
\* half a unit of q's last digit times d
IsQuotient(q, n, d) ==
    LET err == Decimal_sum(Decimal_product(q, d), Decimal_neg(n))
    IN \/ Decimal_is_zero(err)
       \/ /\ Len(q.int) = DecimalPrec
          /\ AbsLeq(Decimal_product(err, Decimal(2)),
                    [sign |-> 0, int |-> d.int, exp |-> d.exp + q.exp])

\* C20: for every stored position neither roc_period nor annualized_roc
\* raises a division error; both are 0 when the collateral
\* (strike_price x contracts x multiplier) is 0, and roc_period is the
\* quotient premium_net / collateral otherwise.
C20_RocTotalOnZeroCollateral ==
    \A i \in DOMAIN positions :
        LET p == positions[i]
            zero == Decimal_is_zero(
                        Decimal_product(Decimal_product(p.strike_price,
                                                        Decimal(p.contracts)),
                                        Decimal(p.multiplier)))
        IN /\ ~Raised(roc_period(p))
           /\ ~Raised(annualized_roc(p))
           /\ zero => /\ Decimal_is_zero(roc_period(p))
                      /\ Decimal_is_zero(annualized_roc(p))
           /\ ~zero => IsQuotient(roc_period(p), premium_net(p), collateral(p))

\* a closed position with strike price 0, two contracts and a premium, and
\* days in trade
C20_Witness ==
    /\ last = [op |-> "close", result |-> "OK"]
    /\ \E i \in DOMAIN positions :
           /\ Decimal_is_zero(positions[i].strike_price)
           /\ positions[i].contracts = 2
           /\ positions[i].multiplier = 100
           /\ positions[i].premium_per_share = DecimalLit(350, -2)
           /\ positions[i].close_date = Some(20)

\* C21: for every stored position days_in_trade is close_date - open_date
\* when it is CLOSED and expiration_date - open_date when it is OPEN;
\* annualized_roc raises no error, is 0 when days_in_trade <= 0, and is the
\* quotient of roc_period x 365 by days_in_trade when days_in_trade > 0.
C21_AnnualizedRocByDaysInTrade ==
    \A i \in DOMAIN positions :
        LET p == positions[i]
            days == days_in_trade(p)
            ann == annualized_roc(p)
        IN /\ p.status = "CLOSED" =>
                  p.close_date # None /\ days = p.close_date[1] - p.open_date
           /\ p.status = "OPEN" => days = p.expiration_date - p.open_date
           /\ ~Raised(ann)
           /\ days <= 0 => Decimal_is_zero(ann)
           /\ days > 0 =>
                  IsQuotient(ann, Decimal_mul(roc_period(p), Decimal(365)),
                             Decimal(days))

\* a position with collateral closed before the day it was opened
C21_Witness ==
    /\ last = [op |-> "close", result |-> "OK"]
    /\ \E i \in DOMAIN positions :
           /\ ~Decimal_is_zero(collateral(positions[i]))
           /\ positions[i].close_date = Some(5)
           /\ positions[i].open_date = 10

\* the day of the requests, and the windows they ask for
DashDays == {35}
DashWindows ==
    {<<None, None>>, <<Some(10), Some(10)>>, <<Some(11), None>>,
     <<None, Some(33)>>, <<Some(34), Some(39)>>}

\* is day d within the window, each end optional?
InWindow(d, w) ==
    /\ w[1] # None => d >= w[1][1]
    /\ w[2] # None => d <= w[2][1]

\* the premium a position counts for: net of fees once it is CLOSED
PremiumOf(p) == IF p.status = "CLOSED" THEN premium_net(p) ELSE premium_total(p)

\* the exact sum of PremiumOf over the first n rows that pass Pick
RECURSIVE PremiumSum(_, _, _)
PremiumSum(rows, n, pick) ==
    IF n = 0 THEN Decimal(0)
    ELSE IF pick[n]
    THEN Decimal_sum(PremiumSum(rows, n - 1, pick), PremiumOf(rows[n]))
    ELSE PremiumSum(rows, n - 1, pick)

\* C22: for every window, total_premium_collected of the user's summary is
\* the sum, over the user's positions whose open_date is in the window, of
\* premium_net for a CLOSED position and premium_total for an OPEN one, and
\* is 0 when no position is in the window.
C22_TotalPremiumIsWindowSum ==
    \A u \in Users, today \in DashDays, w \in DashWindows :
        LET pick == [i \in DOMAIN positions |->
                        /\ positions[i].user_id = u
                        /\ InWindow(positions[i].open_date, w)]
            total == dashboard_summary(positions, u, w[1], w[2],
                                       today).total_premium_collected
        IN /\ Decimal_eq(total, PremiumSum(positions, Len(positions), pick))
           /\ (\A i \in DOMAIN positions : ~pick[i]) => Decimal_is_zero(total)

\* an OPEN and a CLOSED position within one window and a position outside it
C22_Witness ==
    /\ Len(positions) = MaxDashPositions
    /\ \E i, j, k \in DOMAIN positions :
           /\ positions[i].open_date = 10 /\ positions[i].status = "CLOSED"
           /\ positions[j].open_date = 33 /\ positions[j].status = "OPEN"
           /\ positions[k].open_date = 40

\* the first days of the twelve months, as day numbers of the year
MonthFirstDays == {1, 32, 60, 91, 121, 152, 182, 213, 244, 274, 305, 335}

\* the first day of the month that day d is in
FirstOfMonth(d) ==
    CHOOSE f \in MonthFirstDays :
        f <= d /\ \A g \in MonthFirstDays : g <= d => g <= f

\* days in February and on the first of March
MtdDays == {35, 60}

UpcomingDaysOfRequest == {34, 35}

\* C24: upcoming_expirations of the summary holds, once each, exactly the
\* user's OPEN positions with expiration_date <= today + 7, those already
\* past expiration (dte < 0) included, and no CLOSED position.
C24_UpcomingExpirationsExact ==
    \A u \in Users, today \in UpcomingDaysOfRequest :
        LET up == dashboard_summary(positions, u, None, None,
                                    today).upcoming_expirations
            due == {i \in DOMAIN positions :
                       /\ positions[i].user_id = u
                       /\ positions[i].status = "OPEN"
                       /\ positions[i].expiration_date <= today + 7}
        IN /\ {up[k].id : k \in DOMAIN up} = {positions[i].id : i \in due}
           /\ Len(up) = Cardinality(due)
           /\ \A k \in DOMAIN up :
                  /\ up[k].status = "OPEN"
                  /\ up[k].dte = up[k].expiration_date - today

\* an OPEN position past its expiration, one expiring in seven days (in
\* eight on the other day), one expiring later, and a CLOSED one due
C24_Witness ==
    \E i, j \in DOMAIN positions :
        /\ positions[i].status = "OPEN" /\ positions[i].expiration_date = 30
        /\ positions[j].status = "OPEN" /\ positions[j].expiration_date = 42
        /\ \E k \in DOMAIN positions :
               positions[k].status = "CLOSED" /\ positions[k].expiration_date = 30

\* the sum of annualized_roc over the first n rows that pass pick
RECURSIVE AnnualizedSum(_, _, _)
AnnualizedSum(rows, n, pick) ==
    IF n = 0 THEN Decimal(0)
    ELSE IF pick[n]
    THEN Decimal_add(AnnualizedSum(rows, n - 1, pick), annualized_roc(rows[n]))
    ELSE AnnualizedSum(rows, n - 1, pick)

\* C25: in every row of the by-ticker rollup trade_count is the number of the
\* user's positions with that ticker, and avg_annualized_roc is the mean of
\* annualized_roc over those of them that have non-zero collateral and
\* positive days_in_trade: their sum divided by their number, the positions
\* with zero collateral or non-positive days_in_trade left out of both.
C25_AvgSkipsIneligible ==
    \A u \in Users :
        LET out == dashboard_by_ticker(positions, u, None, None) IN
        \A k \in DOMAIN out :
            LET member == [i \in DOMAIN positions |->
                              /\ positions[i].user_id = u
                              /\ positions[i].ticker = out[k].ticker]
                counted == [i \in DOMAIN positions |->
                               /\ member[i]
                               /\ ~Decimal_is_zero(collateral(positions[i]))
                               /\ days_in_trade(positions[i]) > 0]
                n == Cardinality({i \in DOMAIN positions : counted[i]})
            IN /\ out[k].trade_count =
                      Cardinality({i \in DOMAIN positions : member[i]})
               /\ n > 0 =>
                      IsQuotient(out[k].avg_annualized_roc,
                                 AnnualizedSum(positions, Len(positions), counted),
                                 Decimal(n))

\* the sum of trade_count over the first n rows of a rollup
RECURSIVE TradeCountSum(_, _)
TradeCountSum(out, n) ==
    IF n = 0 THEN 0 ELSE TradeCountSum(out, n - 1) + out[n].trade_count

\* C26: for every window the by-ticker rollup has exactly one row for each
\* ticker among the user's positions opened in the window; the row's
\* trade_count is the number of those positions with its ticker, its
\* total_premium the sum of their premium (net of fees once CLOSED), and the
\* trade_counts add up to the number of positions in the window.
C26_RollupPartitionsByTicker ==
    \A u \in Users, w \in DashWindows :
        LET out == dashboard_by_ticker(positions, u, w[1], w[2])
            filtered == {i \in DOMAIN positions :
                            /\ positions[i].user_id = u
                            /\ InWindow(positions[i].open_date, w)}
            tickers == {positions[i].ticker : i \in filtered}
        IN /\ {out[k].ticker : k \in DOMAIN out} = tickers
           /\ Len(out) = Cardinality(tickers)
           /\ \A k \in DOMAIN out :
                  LET member == [i \in DOMAIN positions |->
                                    /\ i \in filtered
                                    /\ positions[i].ticker = out[k].ticker]
                  IN /\ out[k].trade_count =
                            Cardinality({i \in filtered : member[i]})
                     /\ Decimal_eq(out[k].total_premium,
                                   PremiumSum(positions, Len(positions), member))
           /\ TradeCountSum(out, Len(out)) = Cardinality(filtered)

\* two positions on one ticker, one of them CLOSED, and one on another
C26_Witness ==
    /\ Len(positions) = MaxDashPositions
    /\ \E i, j, k \in DOMAIN positions :
           /\ i # j
           /\ positions[i].ticker = positions[j].ticker
           /\ positions[i].status = "CLOSED"
           /\ positions[k].ticker # positions[i].ticker

\* the orders the store can return the rows of a table in
ReturnOrders(table) ==
    LET n == Len(table)
        perms == {f \in [1..n -> 1..n] : \A i, j \in 1..n : f[i] = f[j] => i = j}
    IN {SubSeq([k \in 1..n |-> table[f[k]]], 1, n) : f \in perms}

\* the place of the first row with this ticker
FirstSeen(rows, ticker) ==
    CHOOSE i \in DOMAIN rows :
        /\ rows[i].ticker = ticker
        /\ \A j \in DOMAIN rows : rows[j].ticker = ticker => i <= j

\* C27: in whatever order the store returns the user's positions, no row of
\* the by-ticker rollup has a smaller total_premium than the row after it,
\* and of two adjacent rows with equal total_premium the earlier one is of
\* the ticker seen first among the returned positions.
C27_RollupSortedByPremiumDesc ==
    \A u \in Users : \A rows \in ReturnOrders(OwnRows(positions, u)) :
        LET out == dashboard_by_ticker(rows, u, None, None) IN
        \A k \in 1..(Len(out) - 1) :
            /\ ~Decimal_less(out[k].total_premium, out[k + 1].total_premium)
            /\ Decimal_eq(out[k].total_premium, out[k + 1].total_premium) =>
                   FirstSeen(rows, out[k].ticker)
                       < FirstSeen(rows, out[k + 1].ticker)

\* the ticker seen first has the smaller total: one position on M, then two
\* on A
C27_Witness ==
    /\ Len(positions) = MaxDashPositions
    /\ positions[1].ticker = <<"M">>
    /\ positions[2].ticker = <<"A">>
    /\ positions[3].ticker = <<"A">>
    /\ positions[3].status = "CLOSED"

\* C28: for every stored position the premium the dashboard computes is
\* the premium_net (CLOSED) or premium_total (OPEN) of PositionResponse, and
\* the term the by-ticker loop adds is its annualized_roc, the loop skipping
\* exactly the positions whose collateral is 0 or whose days_in_trade is not
\* positive, for which annualized_roc is 0; so every total_premium is the sum
\* of those premiums and every avg_annualized_roc the sum of annualized_roc
\* over the positions of the ticker divided by their number.
C28_AggregatesFoldMetrics ==
    /\ \A i \in DOMAIN positions :
           LET p == positions[i]
               resp == PositionResponse(p, 35)
               term == AnnualizedTerm(p)
           IN /\ compute_premium(p) =
                     (IF p.status = "CLOSED" THEN resp.premium_net
                      ELSE resp.premium_total)
              /\ term = None <=>
                     Decimal_is_zero(resp.collateral) \/ days_in_trade(p) <= 0
              /\ term = None => Decimal_is_zero(resp.annualized_roc)
              /\ term # None => term[1] = resp.annualized_roc
    /\ \A u \in Users :
           LET out == dashboard_by_ticker(positions, u, None, None) IN
           \A k \in DOMAIN out :
               LET member == [i \in DOMAIN positions |->
                                 /\ positions[i].user_id = u
                                 /\ positions[i].ticker = out[k].ticker]
                   n == Cardinality({i \in DOMAIN positions : member[i]})
               IN /\ Decimal_eq(out[k].total_premium,
                                PremiumSum(positions, Len(positions), member))
                  /\ Decimal_eq(out[k].avg_annualized_roc,
                                Decimal_truediv(
                                    AnnualizedSum(positions, Len(positions),
                                                  member),
                                    Decimal(n)))

\* on one ticker a position the loop counts, with fees, and one it skips
C28_Witness ==
    \E i, j \in DOMAIN positions :
        /\ positions[i].ticker = positions[j].ticker
        /\ AnnualizedTerm(positions[i]) # None
        /\ ~Decimal_is_zero(positions[i].open_fees)
        /\ positions[i].status = "CLOSED"
        /\ AnnualizedTerm(positions[j]) = None

\* The response of a read request for given tables.
ReadResponse(op, request, as, ps) ==
    CASE op = "list_accounts" -> list_accounts(as, request[1])
      [] op = "list_positions" ->
             list_positions(ps, request[1], request[2], request[3])
      [] op = "dashboard_summary" ->
             dashboard_summary(ps, request[1], request[2], request[3],
                               request[4])
      [] op = "dashboard_by_ticker" ->
             dashboard_by_ticker(ps, request[1], request[2], request[3])
      [] op = "export_positions_csv" ->
             export_positions_csv(ps, request[1], request[2].start,
                                  request[2].end, request[2].status,
                                  request[2].ticker, request[3])

\* C29: a step that answers a read request (list of accounts or positions
\* with their metrics, dashboard summary, by-ticker rollup, export) leaves
\* every position and account as stored; and the same read repeated right
\* after it, with the same parameters and date, gets the same response as it
\* did.
C29_ReadStep ==
    last'.op \in ReadOps =>
        /\ positions' = positions
        /\ accounts' = accounts
        /\ ReadResponse(last'.op, last'.request, accounts', positions')
               = ReadResponse(last'.op, last'.request, accounts, positions)

C30_RequestStep ==
    (last'.op = "get_prices" /\ clock' = clock) =>
        \A t \in ListItems(TickerList(last'.request)) :
            LET young == /\ t \in DOMAIN price_cache
                         /\ clock - price_cache[t][2] < 60
                called == \E i \in DOMAIN last'.fetch_calls :
                              t \in ListItems(last'.fetch_calls[i])
            IN  /\ called <=> ~young
                /\ young =>
                       /\ price_cache'[t] = price_cache[t]
                       /\ price_cache[t][1] \in ListItems(last'.response.prices)
                /\ ~young =>
                       /\ t \in DOMAIN last'.fetched
                       /\ price_cache'[t] = <<last'.fetched[t], clock>>
                       /\ last'.fetched[t] \in ListItems(last'.response.prices)

C30_CacheExpiry == [][C30_RequestStep]_vars

\* A request for M and A answered with A served from an entry 59 seconds old
\* and M fetched.
C30_Witness ==
    /\ last.op = "get_prices"
    /\ last.request = <<"M", ",", "A">>
    /\ last.fetch_calls = << << <<"M">> >> >>
    /\ <<"A">> \in DOMAIN price_cache
    /\ clock - price_cache[<<"A">>][2] = 59
    /\ price_cache[<<"M">>][2] = clock
    /\ Len(last.response.prices) = 2

\* C31: get_prices answers whatever the upstream does: its response holds an
\* entry for every ticker asked for; a ticker fetched in this request whose
\* lookup failed (the download raised, its column is missing or holds no
\* close) gets an entry with null current_price, change_percent and
\* last_fetched; and a ticker fetched in this request whose lookup succeeded
\* gets its price and fetch time, whatever happened to the other tickers.
C31_RequestStep ==
    (last'.op = "get_prices" /\ clock' = clock) =>
        /\ last'.result = "OK"
        /\ \A t \in ListItems(TickerList(last'.request)) :
               /\ \E i \in DOMAIN last'.response.prices :
                      last'.response.prices[i].ticker = t
               /\ (\E c \in DOMAIN last'.fetch_calls :
                       t \in ListItems(last'.fetch_calls[c])) =>
                   LET data == last'.upstream
                       failed == \/ data.raises
                                 \/ data.close[t][1] = "KeyError"
                                 \/ data.close[t][2] = <<>>
                   IN  \A i \in DOMAIN last'.response.prices :
                           last'.response.prices[i].ticker = t =>
                               IF failed
                               THEN /\ last'.response.prices[i].current_price = None
                                    /\ last'.response.prices[i].change_percent = None
                                    /\ last'.response.prices[i].last_fetched = None
                               ELSE /\ last'.response.prices[i].current_price # None
                                    /\ last'.response.prices[i].last_fetched = Some(clock)

C31_NullEntriesOnFailure == [][C31_RequestStep]_vars

\* A request for A and M, both fetched: the lookup of M failed and that of A
\* succeeded.
C31_Witness ==
    /\ last.op = "get_prices"
    /\ last.fetch_calls = << << <<"A">>, <<"M">> >> >>
    /\ ~last.upstream.raises
    /\ last.upstream.close[<<"M">>][1] = "KeyError"
    /\ \E i, j \in DOMAIN last.response.prices :
           /\ last.response.prices[i].ticker = <<"A">>
           /\ last.response.prices[i].current_price = Some(17550)
           /\ last.response.prices[j].ticker = <<"M">>
           /\ last.response.prices[j].current_price = None

\* C32: with get_prices requests interleaved in every way, a store of a
\* request for a ticker leaves the cache entry of that ticker equal to that
\* request's own pair (the price it fetched, the time it read at its start);
\* an entry changes only by such a store, so an entry is always the pair of
\* the request that stored last and never the price of one request with the
\* time of another; and a request that has returned has an entry in its
\* response for every ticker it asked for.
C32_Step ==
    /\ \A c \in DOMAIN price_calls :
           (price_calls[c].pc = "write" /\ price_calls'[c] # price_calls[c]) =>
               LET t == price_calls[c].tickers_to_fetch[price_calls[c].i]
               IN  /\ t \in DOMAIN price_cache'
                   /\ price_cache'[t] =
                          <<price_calls[c].fetched[t], price_calls[c].now>>
    /\ \A t \in DOMAIN price_cache' :
           (t \notin DOMAIN price_cache \/ price_cache'[t] # price_cache[t]) =>
               \E c \in DOMAIN price_calls :
                   /\ price_calls[c].pc = "write"
                   /\ price_calls'[c] # price_calls[c]
                   /\ price_calls[c].tickers_to_fetch[price_calls[c].i] = t
    /\ \A t \in DOMAIN price_cache' :
           \E c \in DOMAIN price_calls' :
               /\ t \in DOMAIN price_calls'[c].fetched
               /\ price_cache'[t] =
                      <<price_calls'[c].fetched[t], price_calls'[c].now>>
    /\ \A c \in DOMAIN price_calls' :
           price_calls'[c].pc = "done" =>
               \A t \in ListItems(price_calls'[c].ticker_list) :
                   \E i \in DOMAIN price_calls'[c].results :
                       price_calls'[c].results[i].ticker = t

C32_LastWriteWins == [][C32_Step]_vars

\* Two requests that both refreshed A have returned: the second one read its
\* time 59 seconds after the first and got no price, the first one got a
\* price and stored last.
C32_Witness ==
    /\ Len(price_calls) = 2
    /\ price_calls[1].pc = "done" /\ price_calls[2].pc = "done"
    /\ price_calls[1].now = 0 /\ price_calls[2].now = 59
    /\ price_calls[1].tickers_to_fetch = << <<"A">> >>
    /\ price_calls[2].tickers_to_fetch = << <<"A">> >>
    /\ price_calls[1].fetched[<<"A">>].current_price = Some(17550)
    /\ price_calls[2].fetched[<<"A">>].current_price = None
    /\ price_cache[<<"A">>] = <<price_calls[1].fetched[<<"A">>], 0>>

\* C38 as stated: under any interleaving of get_prices requests, no step
\* replaces the cache entry of a ticker by one with an earlier fetch time.
C38_StampStep ==
    \A t \in DOMAIN price_cache :
        /\ t \in DOMAIN price_cache'
        /\ price_cache'[t][2] >= price_cache[t][2]

C38_StampNeverDecreases == [][C38_StampStep]_vars

\* C38 as amended: a store replaces the cache entry of a ticker by one with
\* an earlier fetch time only when the entry in place is the pair of a
\* request that began after the storing one and has stored the ticker
\* already; the store of the request that began last never moves the fetch
\* time back.
C38_OvertakenStep ==
    \A c \in DOMAIN price_calls :
        (price_calls[c].pc = "write" /\ price_calls'[c] # price_calls[c]) =>
            LET t == price_calls[c].tickers_to_fetch[price_calls[c].i]
            IN  (t \in DOMAIN price_cache /\ price_cache'[t][2] < price_cache[t][2])
                    => \E c2 \in DOMAIN price_calls :
                           /\ c2 > c
                           /\ price_calls[c2].pc \in {"write", "return", "done"}
                           /\ t \in DOMAIN price_calls[c2].fetched
                           /\ price_cache[t] = <<price_calls[c2].fetched[t],
                                                 price_calls[c2].now>>

C38_StampDecreasesOnlyWhenOvertaken == [][C38_OvertakenStep]_vars

\* The first request has stored A and M with its own time 0 after the second
\* one, begun 60 seconds later, had stored A.
C38_Witness ==
    /\ Len(price_calls) = 2
    /\ price_calls[1].now = 0 /\ price_calls[2].now = 60
    /\ price_calls[2].pc = "done"
    /\ price_calls[2].tickers_to_fetch = << <<"A">> >>
    /\ price_calls[1].pc \in {"return", "done"}
    /\ price_calls[1].tickers_to_fetch = << <<"A">>, <<"M">> >>
    /\ price_cache[<<"A">>][2] = 0

\* C39: when the cache holds for a ticker an entry with null current_price,
\* change_percent and last_fetched, a get_prices request for that ticker made
\* less than 60 seconds after the entry's fetch time returns that entry,
\* passes the ticker to no upstream fetch and leaves the entry in place; a
\* request made 60 seconds after it or later fetches the ticker again.
C39_RequestStep ==
    (last'.op = "get_prices" /\ clock' = clock) =>
        \A t \in ListItems(TickerList(last'.request)) :
            (/\ t \in DOMAIN price_cache
             /\ price_cache[t][1] = NullTickerPrice(t)) =>
                LET called == \E i \in DOMAIN last'.fetch_calls :
                                  t \in ListItems(last'.fetch_calls[i])
                IN  IF clock - price_cache[t][2] < 60
                    THEN /\ ~called
                         /\ price_cache'[t] = price_cache[t]
                         /\ \A i \in DOMAIN last'.response.prices :
                                last'.response.prices[i].ticker = t =>
                                    last'.response.prices[i] = NullTickerPrice(t)
                         /\ \E i \in DOMAIN last'.response.prices :
                                last'.response.prices[i].ticker = t
                    ELSE /\ called
                         /\ price_cache'[t] = <<last'.fetched[t], clock>>

C39_FailedLookupIsCached == [][C39_RequestStep]_vars

\* A request for M alone answered with the null entry stored 59 seconds
\* before, no fetch being made.
C39_Witness ==
    /\ last.op = "get_prices"
    /\ last.request = <<"m">>
    /\ last.fetch_calls = <<>>
    /\ last.response.prices = << NullTickerPrice(<<"M">>) >>
    /\ price_cache[<<"M">>] = <<NullTickerPrice(<<"M">>), clock - 59>>

\* C33: a position that is CLOSED keeps its outcome and its close_date in
\* every step, whatever Update, Close or Roll request the step serves.
C33_ClosedStep ==
    \A i \in DOMAIN positions :
        positions[i].status = "CLOSED" =>
            /\ i \in DOMAIN positions'
            /\ positions'[i].outcome = positions[i].outcome
            /\ positions'[i].close_date = positions[i].close_date

C33_CloseFieldsFrozen == [][C33_ClosedStep]_vars

\* C34: in every step the positions already stored stay, each under its id,
\* and the number of stored positions grows by one when the step answers a
\* Create or a Roll with success and stays as it was in every other step
\* (an Update, a Close, a request on accounts, a request that fails).
C34_CountStep ==
    LET added == last'.op \in {"create", "roll"} /\ last'.result = "OK"
    IN  /\ Len(positions') = Len(positions) + (IF added THEN 1 ELSE 0)
        /\ \A i \in DOMAIN positions :
               /\ i \in DOMAIN positions'
               /\ positions'[i].id = positions[i].id

C34_PositionsNeverRemoved == [][C34_CountStep]_vars

\* Two positions, the second one added by the Roll that closed the first,
\* and a Roll just refused for a position already closed.
C34_Witness ==
    /\ last = [op |-> "roll", result |-> "AlreadyClosed"]
    /\ Len(positions) = 2
    /\ positions[1].outcome = Some("ROLLED")
    /\ positions[2].roll_group_id = positions[1].roll_group_id

\* C35: a step that answers a Roll with success adds a position whose
\* roll_group_id no position stored before the step carries, and after every
\* step no roll_group_id is carried by more than two positions.
C35_RollStep ==
    /\ (last'.op = "roll" /\ last'.result = "OK"
            /\ Len(positions') = Len(positions) + 1) =>
           LET new == positions'[Len(positions')]
           IN  /\ new.roll_group_id # None
               /\ \A i \in DOMAIN positions :
                      positions[i].roll_group_id # new.roll_group_id
    /\ \A i \in DOMAIN positions' :
           positions'[i].roll_group_id # None =>
               Cardinality({j \in DOMAIN positions' :
                   positions'[j].roll_group_id = positions'[i].roll_group_id}) <= 2

C35_FreshRollGroups == [][C35_RollStep]_vars

\* A position rolled, and the leg that roll opened rolled in its turn: three
\* positions under two roll group ids.
C35_Witness ==
    /\ last = [op |-> "roll", result |-> "OK"]
    /\ Len(positions) = 3
    /\ positions[1].outcome = Some("ROLLED")
    /\ positions[2].outcome = Some("ROLLED")
    /\ positions[3].roll_group_id = positions[2].roll_group_id
    /\ positions[1].roll_group_id # positions[2].roll_group_id

\* The required fields an Update may name, and change sets that carry an
\* explicit null: for one of them alone, and for account_id next to a new
\* ticker.
RequiredUpdatable ==
    {"account_id", "ticker", "type", "open_date", "expiration_date",
     "strike_price", "contracts", "multiplier", "premium_per_share",
     "open_fees", "close_fees"}

ExplicitNullBodies ==
    {[f \in {g} |-> None] : g \in RequiredUpdatable}
    \cup {[account_id |-> None, ticker |-> Some(<<"m">>)],
          [ticker |-> None, close_price_per_share |-> Some(Decimal(2))]}

\* C36: an Update whose change set carries an explicit null for a required
\* field, whoever sends it and whatever position it names, leaves every
\* stored position with the value it had in that field, and leaves every
\* position on an account of the position's own user.
C36_ExplicitNullKeepsRequired ==
    \A u \in Users : \A pid \in Refs(positions) : \A body \in ExplicitNullBodies :
        LET r == update_position(positions, accounts, u, pid, body)
        IN  /\ DOMAIN r.positions = DOMAIN positions
            /\ \A j \in DOMAIN positions :
                   /\ \A f \in RequiredUpdatable :
                          (f \in DOMAIN body /\ body[f] = None) =>
                              r.positions[j][f] = positions[j][f]
                   /\ OwnsAccount(accounts, r.positions[j].account_id,
                                  r.positions[j].user_id)

\* An Update carrying an explicit null for a required field was just
\* refused at commit, a position being stored.
C36_Witness ==
    /\ last = [op |-> "update", result |-> "IntegrityError"]
    /\ Len(positions) > 0
    /\ \E i \in DOMAIN positions : positions[i].user_id = "u1"

\* The failures a Roll reports.
RollFailures == {"PositionNotFound", "AlreadyClosed", "AccountNotOwned"}

\* The failure the order of checks assigns to a Roll of pid by u with body:
\* not found or not owned first, then already closed, then the new leg's
\* account not owned; "OK" when none applies.
RollExpected(u, pid, body) ==
    IF \A i \in DOMAIN positions :
           ~(positions[i].id = pid /\ positions[i].user_id = u)
    THEN "PositionNotFound"
    ELSE IF \E i \in DOMAIN positions :
                /\ positions[i].id = pid
                /\ positions[i].user_id = u
                /\ positions[i].status = "CLOSED"
    THEN "AlreadyClosed"
    ELSE IF ~OwnsAccount(accounts, body.open.account_id, u)
    THEN "AccountNotOwned"
    ELSE "OK"

\* C37: on a Roll step, every Roll the state admits reports the first failure
\* in the order not found or not owned, already closed, new account not
\* owned (a CLOSED position with an unowned open account reports already
\* closed), and hands back the position table as it was; and a Roll step that
\* reported one of the three failures changed no position, no account and
\* drew no roll group id.
C37_RollStep ==
    last'.op = "roll" =>
        /\ \A u \in Users : \A pid \in Refs(positions) : \A body \in PositionRollBodies :
               LET r == roll_position(positions, accounts, u, pid, body,
                                      uuid4(next_uuid))
               IN  /\ r.result = RollExpected(u, pid, body)
                   /\ r.result \in RollFailures => r.positions = positions
        /\ last'.result \in RollFailures =>
               /\ positions' = positions
               /\ accounts' = accounts
               /\ next_uuid' = next_uuid

C37_RollFailureOrder == [][C37_RollStep]_vars

\* A Roll was just refused as already closed in a state where a user holds a
\* CLOSED position and another user holds an account, so a Roll of that
\* position onto that account is among the requests.
C37_Witness ==
    /\ last = [op |-> "roll", result |-> "AlreadyClosed"]
    /\ \E i \in DOMAIN positions : \E a \in DOMAIN accounts :
           /\ positions[i].status = "CLOSED"
           /\ accounts[a].user_id # positions[i].user_id

====
